---- MODULE Spec2Model ----
(***************************************************************************)
(* A model of the grocery storefront's data layer: the relational schema, *)
(* its row-level security policies and triggers (the SQL migration), and  *)
(* the client handlers that issue statements against it (ProductCard,     *)
(* Home, Cart and Orders pages).                                          *)
(*                                                                         *)
(* Conventions.  SQL NULL is the string NULL; a nullable BOOLEAN column   *)
(* holds "true", "false" or NULL.  Amounts (DECIMAL(10,2)) are whole      *)
(* rupees.  A statement is one atomic step of the storage layer; `resp'   *)
(* is the response of the most recent statement.                          *)
(***************************************************************************)
EXTENDS Integers, FiniteSets, Sequences, TLC

(***************************************************************************)
(* Bounds of the model.                                                    *)
(***************************************************************************)
MaxQty == 2
MaxCartIds == 2
MaxProfileIds == 3
MaxOrders == 2
MaxItems == 2
MaxInFlight == 2
MaxRows == 2
MaxTime == 2

NULL == "NULL"
T == "true"
F == "false"

Users == {"u1", "u2"}
\* auth.uid() of a requester: an identity, or NULL for an anonymous requester
Actors == Users \cup {NULL}
Clients == {"c1", "c2"}

VARIABLES
    authUsers,        \* auth.users: the identities that exist
    profiles,         \* public.profiles rows
    nextProfileId,    \* gen_random_uuid() for profiles: the next fresh id
    categories,       \* public.categories: id -> row
    products,         \* public.products: id -> row
    cart,             \* public.cart rows
    nextCartId,       \* gen_random_uuid() for cart
    orders,           \* public.orders rows
    nextOrderId,      \* gen_random_uuid() for orders
    order_items,      \* public.order_items rows
    nextItemId,       \* gen_random_uuid() for order_items
    resp,             \* response of the most recent statement
    session,          \* client -> identity of its session, or NULL
    homeCart,         \* client -> Home.cartItems (rows product_id, quantity)
    card,             \* client -> product -> state of that ProductCard's handler
    cartItems,        \* client -> Cart.cartItems (rows id, quantity, product)
    updating,         \* client -> Cart.updating: {id} of a cart line, {} for null
    cartLoading,      \* client -> Cart.loading
    cartCalls,        \* client -> the Cart handler invocations in flight
    now,              \* now(): the clock of the database
    cartTimes,        \* cart id -> created_at and updated_at of that cart row
    selectedCategory, \* client -> Home.selectedCategory, a category id or NULL
    searchQuery,      \* client -> Home.searchQuery, a string (sequence of characters)
    homeProducts,     \* client -> Home.products, the list on display
    homeLoading,      \* client -> Home.loading
    homeFetches,      \* client -> the fetchProducts requests in flight
    authMode,         \* client -> Auth.mode
    dataConsent,      \* client -> AuthForm.dataConsent
    authLoading,      \* client -> AuthForm.loading
    authCall          \* client -> the request of AuthForm.handleSubmit in flight, or "none"

dbAuth == <<authUsers, profiles, nextProfileId>>
dbCatalog == <<categories, products>>
dbCart == <<cart, nextCartId>>
dbOrders == <<orders, nextOrderId, order_items, nextItemId>>
\* state of the Cart page
pageVars == <<updating, cartLoading, cartCalls>>
\* the timestamp columns of cart and the clock
stampVars == <<now, cartTimes>>
\* state of the Home page's product list
homeVars == <<selectedCategory, searchQuery, homeProducts, homeLoading, homeFetches>>
\* state of the Auth page
authVars == <<authMode, dataConsent, authLoading, authCall>>
\* what the handlers of ProductCard and Home.fetchCartItems leave alone
restVars == <<pageVars, stampVars, homeVars, authVars>>
\* what the statements of the storage layer leave alone
clientVars == <<session, homeCart, card, cartItems, restVars>>
vars == <<dbAuth, dbCatalog, dbCart, dbOrders, resp, clientVars>>

(***************************************************************************)
(* Seed data of the migration.                                             *)
(***************************************************************************)
Categories == {"fruits", "dairy"}
Products == {"banana", "milk"}
DeliveryFee == 20

SeedCategoryOf(p) == IF p = "banana" THEN "fruits" ELSE "dairy"
SeedPriceOf(p) == IF p = "banana" THEN 40 ELSE 55
SeedStockOf(p) == IF p = "banana" THEN 100 ELSE 30

SeedCategories == [c \in Categories |-> [exists |-> TRUE, is_active |-> T]]
SeedProducts ==
    [p \in Products |->
        [exists |-> TRUE, price |-> SeedPriceOf(p), is_active |-> T,
         category_id |-> SeedCategoryOf(p), stock_quantity |-> SeedStockOf(p)]]

(***************************************************************************)
(* Responses.                                                              *)
(***************************************************************************)
NoResp == [op |-> "none", actor |-> NULL, arg |-> NULL, status |-> "ok",
           rows |-> {}, affected |-> 0]
Resp(op, actor, arg, status, rows, affected) ==
    [op |-> op, actor |-> actor, arg |-> arg, status |-> status,
     rows |-> rows, affected |-> affected]

(***************************************************************************)
(* public.profiles: constraints, policies and the provisioning trigger.    *)
(***************************************************************************)
Languages == {"en", "hi"}

ProfileSelectPolicy(uid, row) == uid # NULL /\ uid = row.user_id
ProfileUpdatePolicy(uid, row) == uid # NULL /\ uid = row.user_id
ProfileInsertCheck(uid, row) == uid # NULL /\ uid = row.user_id

\* language TEXT DEFAULT 'en' CHECK (language IN ('en','hi')): a NULL passes
ProfileLanguageCheck(row) == row.language = NULL \/ row.language \in Languages

ProfileUserIdUniqueDropped(row, others) == TRUE
\* user_id UUID NOT NULL UNIQUE
ProfileUserIdUnique(row, others) ==
    \A r \in others : r.user_id # row.user_id

\* the constraints a new or changed profiles row must meet, in the order
\* the storage engine evaluates them
ProfileConstraints(row, others) ==
    IF ~ProfileLanguageCheck(row) THEN "check_violation"
    ELSE IF ~ProfileUserIdUnique(row, others) THEN "unique_violation"
    ELSE IF row.user_id \notin authUsers THEN "fk_violation"
    ELSE "ok"

ProfileDefaults(id, user_id, full_name) ==
    [id |-> id, user_id |-> user_id, full_name |-> full_name, phone |-> NULL,
     language |-> "en", data_collection_consent |-> F]

\* sign-up metadata (raw_user_meta_data); NULL is an absent key
MetaData ==
    [full_name : {NULL, "Asha"}, phone : {"9876"}, language : Languages,
     data_collection_consent : {T}]

HandleNewUserAllFields(newId, meta) ==
    [ProfileDefaults(nextProfileId, newId, meta.full_name)
        EXCEPT !.phone = meta.phone, !.language = meta.language,
               !.data_collection_consent = meta.data_collection_consent]
\* handle_new_user(): INSERT INTO profiles (user_id, full_name)
HandleNewUser(newId, meta) ==
    ProfileDefaults(nextProfileId, newId, meta.full_name)

\* createIdentity: INSERT INTO auth.users fires on_auth_user_created in the
\* same transaction
SignUp(u, meta) ==
    /\ u \notin authUsers
    /\ nextProfileId <= MaxProfileIds
    /\ LET row == HandleNewUser(u, meta)
           st == IF ~ProfileLanguageCheck(row) THEN "check_violation"
                 ELSE IF ~ProfileUserIdUnique(row, profiles)
                      THEN "unique_violation" ELSE "ok"
       IN  /\ resp' = Resp("signup", u, meta, st, {}, IF st = "ok" THEN 1 ELSE 0)
           /\ IF st = "ok"
              THEN /\ authUsers' = authUsers \cup {u}
                   /\ profiles' = profiles \cup {row}
                   /\ nextProfileId' = nextProfileId + 1
              ELSE UNCHANGED dbAuth
    /\ UNCHANGED <<dbCatalog, dbCart, dbOrders, clientVars>>

\* a retried provisioning: handle_new_user() runs again for an identity that
\* exists already
RetryProvision(u, meta) ==
    /\ u \in authUsers
    /\ LET row == HandleNewUser(u, meta)
           st == ProfileConstraints(row, profiles)
       IN  /\ resp' = Resp("provision", u, meta, st, {}, IF st = "ok" THEN 1 ELSE 0)
           /\ IF st = "ok"
              THEN /\ nextProfileId <= MaxProfileIds
                   /\ profiles' = profiles \cup {row}
                   /\ nextProfileId' = nextProfileId + 1
                   /\ UNCHANGED authUsers
              ELSE UNCHANGED dbAuth
    /\ UNCHANGED <<dbCatalog, dbCart, dbOrders, clientVars>>

\* INSERT INTO profiles by a client
RawProfileInsert(a, user_id, lang) ==
    /\ LET row == [ProfileDefaults(nextProfileId, user_id, NULL)
                      EXCEPT !.language = lang]
           st == IF ~ProfileInsertCheck(a, row) THEN "rls_violation"
                 ELSE ProfileConstraints(row, profiles)
       IN  /\ resp' = Resp("profile_insert", a, row, st, {},
                           IF st = "ok" THEN 1 ELSE 0)
           /\ IF st = "ok"
              THEN /\ nextProfileId <= MaxProfileIds
                   /\ profiles' = profiles \cup {row}
                   /\ nextProfileId' = nextProfileId + 1
                   /\ UNCHANGED authUsers
              ELSE UNCHANGED dbAuth
    /\ UNCHANGED <<dbCatalog, dbCart, dbOrders, clientVars>>

\* SELECT * FROM profiles WHERE user_id = target (Account.fetchProfile)
ProfileSelect(a, target) ==
    /\ resp' = Resp("profile_select", a, target, "ok",
                    {r \in profiles : r.user_id = target /\ ProfileSelectPolicy(a, r)},
                    0)
    /\ UNCHANGED <<dbAuth, dbCatalog, dbCart, dbOrders, clientVars>>

\* UPDATE profiles SET col = val WHERE user_id = target.  The UPDATE policy
\* has no WITH CHECK, so its USING expression also checks the new row.
RawProfileUpdate(a, target, col, val) ==
    /\ LET hit == {r \in profiles : r.user_id = target /\ ProfileUpdatePolicy(a, r)}
           new(r) == IF col = "language" THEN [r EXCEPT !.language = val]
                     ELSE [r EXCEPT !.user_id = val]
           st == IF \E r \in hit : ~ProfileUpdatePolicy(a, new(r))
                 THEN "rls_violation"
                 ELSE IF \E r \in hit : ProfileConstraints(new(r), profiles \ {r}) # "ok"
                 THEN CHOOSE s \in {ProfileConstraints(new(r), profiles \ {r}) : r \in hit} : s # "ok"
                 ELSE "ok"
       IN  /\ resp' = Resp("profile_update", a, [target |-> target, col |-> col, val |-> val],
                           st, {}, IF st = "ok" THEN Cardinality(hit) ELSE 0)
           /\ profiles' = IF st = "ok"
                          THEN (profiles \ hit) \cup {new(r) : r \in hit}
                          ELSE profiles
    /\ UNCHANGED <<authUsers, nextProfileId, dbCatalog, dbCart, dbOrders, clientVars>>

\* DELETE FROM profiles WHERE user_id = target: row security is enabled and
\* no DELETE policy exists, so no row is visible to the statement
ProfileDeletePolicy(uid, row) == FALSE
RawProfileDelete(a, target) ==
    /\ LET hit == {r \in profiles : r.user_id = target /\ ProfileDeletePolicy(a, r)}
       IN  /\ resp' = Resp("profile_delete", a, target, "ok", {}, Cardinality(hit))
           /\ profiles' = profiles \ hit
    /\ UNCHANGED <<authUsers, nextProfileId, dbCatalog, dbCart, dbOrders, clientVars>>

(***************************************************************************)
(* public.categories and public.products: world-readable when active.     *)
(* Clients have no INSERT, UPDATE or DELETE policy on either table; rows   *)
(* change only through a privileged (policy-bypassing) actor.              *)
(***************************************************************************)
Flags == {T, F, NULL}

CategorySelectPolicyAll(uid, row) == row.exists
\* FOR SELECT USING (is_active = true): NULL = true is not true
CategorySelectPolicy(uid, row) == row.exists /\ row.is_active = T

ProductSelectPolicyAll(uid, row) == row.exists
ProductSelectPolicy(uid, row) == row.exists /\ row.is_active = T

AdminSetCategoryActive(c, flag) ==
    /\ categories[c].exists
    /\ categories[c].is_active # flag
    /\ categories' = [categories EXCEPT ![c].is_active = flag]
    /\ resp' = Resp("admin_category", "service", c, "ok", {}, 1)
    /\ UNCHANGED <<dbAuth, products, dbCart, dbOrders, clientVars>>

AdminSetProductActive(p, flag) ==
    /\ products[p].exists
    /\ products[p].is_active # flag
    /\ products' = [products EXCEPT ![p].is_active = flag]
    /\ resp' = Resp("admin_product_active", "service", p, "ok", {}, 1)
    /\ UNCHANGED <<dbAuth, categories, dbCart, dbOrders, clientVars>>

AdminSetProductPrice(p, price) ==
    /\ products[p].exists
    /\ products[p].price # price
    /\ products' = [products EXCEPT ![p].price = price]
    /\ resp' = Resp("admin_product_price", "service", p, "ok", {}, 1)
    /\ UNCHANGED <<dbAuth, categories, dbCart, dbOrders, clientVars>>

\* DELETE FROM products: cart.product_id cascades, order_items.product_id
\* (no ON DELETE action) restricts
AdminDeleteProduct(p) ==
    /\ products[p].exists
    /\ IF \E i \in order_items : i.product_id = p
       THEN /\ resp' = Resp("admin_product_delete", "service", p, "fk_violation", {}, 0)
            /\ UNCHANGED <<products, cart>>
       ELSE /\ resp' = Resp("admin_product_delete", "service", p, "ok", {}, 1)
            /\ products' = [products EXCEPT ![p].exists = FALSE]
            /\ cart' = {r \in cart : r.product_id # p}
    /\ UNCHANGED <<dbAuth, categories, nextCartId, dbOrders, clientVars>>

\* a null embedded product
NoProduct == [id |-> NULL]

\* the embedded resource product:products(...) of a row that references p,
\* as the requester may see it
ProductEmbed(uid, p) ==
    IF ProductSelectPolicy(uid, products[p])
    THEN [id |-> p, price |-> products[p].price,
          stock_quantity |-> products[p].stock_quantity]
    ELSE NoProduct

(***************************************************************************)
(* public.cart: constraints and policies.                                 *)
(***************************************************************************)
CartSelectPolicy(uid, row) == uid # NULL /\ uid = row.user_id
CartInsertCheck(uid, row) == uid # NULL /\ uid = row.user_id
CartUpdatePolicyAll(uid, row) == TRUE
CartUpdatePolicy(uid, row) == uid # NULL /\ uid = row.user_id
CartDeletePolicyAll(uid, row) == TRUE
CartDeletePolicy(uid, row) == uid # NULL /\ uid = row.user_id

CartPairUniqueDropped(row, others) == TRUE
\* UNIQUE(user_id, product_id)
CartPairUnique(row, others) ==
    \A r \in others : ~(r.user_id = row.user_id /\ r.product_id = row.product_id)

CartConstraintsNoQuantityCheck(row, others) ==
    IF ~CartPairUnique(row, others) THEN "unique_violation"
    ELSE IF row.user_id \notin authUsers \/ ~products[row.product_id].exists
         THEN "fk_violation"
    ELSE "ok"

\* the table constraints of cart, CHECK (quantity > 0) first
CartConstraints(row, others) ==
    IF ~(row.quantity > 0) THEN "check_violation"
    ELSE IF ~CartPairUnique(row, others) THEN "unique_violation"
    ELSE IF row.user_id \notin authUsers \/ ~products[row.product_id].exists
         THEN "fk_violation"
    ELSE "ok"

UpsertArbiterPair(row, r) ==
    r.user_id = row.user_id /\ r.product_id = row.product_id
\* .upsert(values) names no onConflict columns, so the statement is
\* INSERT ... ON CONFLICT (id) DO UPDATE: the arbiter is the primary key
UpsertArbiter(row, r) == r.id = row.id

\* the outcome of .from('cart').upsert({user_id, product_id, quantity}) issued
\* by uid: the status and the table afterwards.  The row carries no id, so its
\* id is the column default, a fresh one.
CartUpsertOutcome(uid, user_id, p, q) ==
    LET row == [id |-> nextCartId, user_id |-> user_id, product_id |-> p,
                quantity |-> q]
        hit == {r \in cart : UpsertArbiter(row, r)}
    IN  IF ~CartInsertCheck(uid, row)
        THEN [status |-> "rls_violation", cart |-> cart, inserted |-> FALSE]
        ELSE IF hit # {}
        THEN LET old == CHOOSE r \in hit : TRUE
                 new == [old EXCEPT !.user_id = user_id, !.product_id = p,
                                    !.quantity = q]
                 st == IF ~CartUpdatePolicy(uid, old) \/ ~CartUpdatePolicy(uid, new)
                       THEN "rls_violation"
                       ELSE CartConstraints(new, cart \ {old})
             IN  [status |-> st,
                  cart |-> IF st = "ok" THEN (cart \ {old}) \cup {new} ELSE cart,
                  inserted |-> FALSE]
        ELSE LET st == CartConstraints(row, cart)
             IN  [status |-> st,
                  cart |-> IF st = "ok" THEN cart \cup {row} ELSE cart,
                  inserted |-> st = "ok"]

\* UPDATE cart SET col = val WHERE id = id.  No WITH CHECK on the UPDATE
\* policy: USING also checks the new row.
CartUpdateOutcome(uid, id, col, val) ==
    LET hit == {r \in cart : r.id = id /\ CartUpdatePolicy(uid, r)}
        new(r) == IF col = "quantity" THEN [r EXCEPT !.quantity = val]
                  ELSE IF col = "product_id" THEN [r EXCEPT !.product_id = val]
                  ELSE [r EXCEPT !.user_id = val]
        bad == {r \in hit : CartConstraints(new(r), cart \ {r}) # "ok"}
        st == IF \E r \in hit : ~CartUpdatePolicy(uid, new(r)) THEN "rls_violation"
              ELSE IF bad # {}
              THEN CartConstraints(new(CHOOSE r \in bad : TRUE),
                                   cart \ {CHOOSE r \in bad : TRUE})
              ELSE "ok"
    IN  [status |-> st,
         cart |-> IF st = "ok" THEN (cart \ hit) \cup {new(r) : r \in hit} ELSE cart,
         affected |-> IF st = "ok" THEN Cardinality(hit) ELSE 0]

CartDeleteOutcomeNoRowsError(uid, matching) ==
    LET hit == {r \in matching : CartDeletePolicy(uid, r)}
    IN  [status |-> IF hit = {} THEN "no_rows" ELSE "ok", cart |-> cart \ hit,
         affected |-> Cardinality(hit)]
\* DELETE FROM cart WHERE <filter>, matching being the rows the statement's
\* own WHERE clause selects
CartDeleteOutcome(uid, matching) ==
    LET hit == {r \in matching : CartDeletePolicy(uid, r)}
    IN  [status |-> "ok", cart |-> cart \ hit, affected |-> Cardinality(hit)]

\* SELECT ... FROM cart WHERE user_id = target
CartSelectRows(uid, target) ==
    {r \in cart : r.user_id = target /\ CartSelectPolicy(uid, r)}

(***************************************************************************)
(* Cart statements as single requests of a requester with identity a.     *)
(***************************************************************************)
\* the quantities a request may carry
QtyInputs == {0, 1, 2}
CartIds == 1..MaxCartIds

CartUpsert(a, user_id, p, q) ==
    /\ LET out == CartUpsertOutcome(a, user_id, p, q)
       IN  /\ out.inserted => nextCartId <= MaxCartIds
           /\ cart' = out.cart
           /\ nextCartId' = IF out.inserted THEN nextCartId + 1 ELSE nextCartId
           /\ resp' = Resp("cart_upsert", a, NULL, out.status, {},
                           IF out.status = "ok" THEN 1 ELSE 0)
    /\ UNCHANGED <<dbAuth, dbCatalog, dbOrders, clientVars>>

CartUpdate(a, id, col, val) ==
    /\ LET out == CartUpdateOutcome(a, id, col, val)
       IN  /\ cart' = out.cart
           /\ resp' = Resp("cart_update", a, id, out.status, {}, out.affected)
    /\ UNCHANGED <<dbAuth, dbCatalog, nextCartId, dbOrders, clientVars>>

CartDeleteById(a, id) ==
    /\ LET f == {r \in cart : r.id = id}
           out == CartDeleteOutcome(a, f)
       IN  /\ cart' = out.cart
           /\ resp' = Resp("cart_delete", a, id, out.status, {}, out.affected)
    /\ UNCHANGED <<dbAuth, dbCatalog, nextCartId, dbOrders, clientVars>>

CartDeleteByPair(a, user_id, p) ==
    /\ LET f == {r \in cart : r.user_id = user_id /\ r.product_id = p}
           out == CartDeleteOutcome(a, f)
       IN  /\ cart' = out.cart
           /\ resp' = Resp("cart_delete_pair", a, NULL, out.status, {}, out.affected)
    /\ UNCHANGED <<dbAuth, dbCatalog, nextCartId, dbOrders, clientVars>>

CartSelect(a, target) ==
    /\ resp' = Resp("cart_select", a, target, "ok", CartSelectRows(a, target), 0)
    /\ UNCHANGED <<dbAuth, dbCatalog, dbCart, dbOrders, clientVars>>

(***************************************************************************)
(* public.orders and public.order_items.  Clients may SELECT and INSERT;  *)
(* no UPDATE or DELETE policy exists on either table.                      *)
(***************************************************************************)
Statuses == {"pending", "confirmed", "shipped", "delivered", "cancelled"}
PaymentMethods == {"cod", "online"}
OrderIds == 1..MaxOrders

OrderSelectPolicyAll(uid, row) == TRUE
OrderSelectPolicy(uid, row) == uid # NULL /\ uid = row.user_id
OrderInsertCheck(uid, row) == uid # NULL /\ uid = row.user_id
OrderUpdatePolicyOwner(uid, row) == uid # NULL /\ uid = row.user_id
OrderUpdatePolicy(uid, row) == FALSE
OrderDeletePolicy(uid, row) == FALSE

\* order_id IN (SELECT id FROM public.orders WHERE user_id = auth.uid()); the
\* subquery runs under the requester's own view of orders
OwnOrderIds(uid) ==
    {o.id : o \in {r \in orders : OrderSelectPolicy(uid, r) /\ r.user_id = uid}}
ItemSelectPolicyAll(uid, row) == TRUE
ItemSelectPolicy(uid, row) == row.order_id \in OwnOrderIds(uid)
ItemInsertCheckAnyOrder(uid, row) == uid # NULL
ItemInsertCheck(uid, row) == row.order_id \in OwnOrderIds(uid)
ItemUpdatePolicyOwner(uid, row) == row.order_id \in OwnOrderIds(uid)
ItemUpdatePolicy(uid, row) == FALSE
ItemDeletePolicy(uid, row) == FALSE

OrderConstraints(row) ==
    \* total_amount is NOT NULL as well; every request of the model carries one
    IF row.delivery_address = NULL \/ row.phone = NULL THEN "not_null_violation"
    ELSE IF ~(row.status = NULL \/ row.status \in Statuses) THEN "check_violation"
    ELSE IF ~(row.payment_method = NULL \/ row.payment_method \in PaymentMethods)
         THEN "check_violation"
    ELSE IF row.user_id \notin authUsers THEN "fk_violation"
    ELSE "ok"

ItemConstraints(row, ords) ==
    IF ~(row.quantity > 0) THEN "check_violation"
    ELSE IF row.order_id \notin {o.id : o \in ords} \/ ~products[row.product_id].exists
         THEN "fk_violation"
    ELSE "ok"

\* the values a client may send with an INSERT INTO orders
OrderInputs ==
    [user_id : Users, total_amount : {60}, delivery_fee : {0},
     status : {"pending", "delivered"}, payment_method : {"cod"},
     delivery_address : {"addr", NULL}, phone : {"9876"}]

\* the values a client may send with an INSERT INTO order_items
ItemInputs ==
    [order_id : OrderIds, product_id : Products, quantity : {1},
     unit_price : {40}, total_price : {40}]

OrderRow(id, v) ==
    [id |-> id, user_id |-> v.user_id, total_amount |-> v.total_amount,
     delivery_fee |-> v.delivery_fee, status |-> v.status,
     payment_method |-> v.payment_method,
     delivery_address |-> v.delivery_address, phone |-> v.phone]

ItemRow(id, v) ==
    [id |-> id, order_id |-> v.order_id, product_id |-> v.product_id,
     quantity |-> v.quantity, unit_price |-> v.unit_price,
     total_price |-> v.total_price]

RawOrderInsert(a, v) ==
    /\ LET row == OrderRow(nextOrderId, v)
           st == IF ~OrderInsertCheck(a, row) THEN "rls_violation"
                 ELSE OrderConstraints(row)
       IN  /\ resp' = Resp("order_insert", a, NULL, st, {}, IF st = "ok" THEN 1 ELSE 0)
           /\ IF st = "ok"
              THEN /\ nextOrderId <= MaxOrders
                   /\ orders' = orders \cup {row}
                   /\ nextOrderId' = nextOrderId + 1
              ELSE UNCHANGED <<orders, nextOrderId>>
    /\ UNCHANGED <<dbAuth, dbCatalog, dbCart, order_items, nextItemId, clientVars>>

RawItemInsert(a, v) ==
    /\ LET row == ItemRow(nextItemId, v)
           st == IF ~ItemInsertCheck(a, row) THEN "rls_violation"
                 ELSE ItemConstraints(row, orders)
       IN  /\ resp' = Resp("item_insert", a, v.order_id, st, {}, IF st = "ok" THEN 1 ELSE 0)
           /\ IF st = "ok"
              THEN /\ nextItemId <= MaxItems
                   /\ order_items' = order_items \cup {row}
                   /\ nextItemId' = nextItemId + 1
              ELSE UNCHANGED <<order_items, nextItemId>>
    /\ UNCHANGED <<dbAuth, dbCatalog, dbCart, orders, nextOrderId, clientVars>>

\* UPDATE orders SET status = val WHERE id = id, issued by a client
RawOrderUpdate(a, id, val) ==
    /\ LET hit == {r \in orders : r.id = id /\ OrderUpdatePolicy(a, r)}
       IN  /\ orders' = (orders \ hit) \cup {[r EXCEPT !.status = val] : r \in hit}
           /\ resp' = Resp("order_update", a, id, "ok", {},
                           Cardinality(hit))
    /\ UNCHANGED <<dbAuth, dbCatalog, dbCart, nextOrderId, order_items, nextItemId,
                   clientVars>>

\* DELETE FROM orders WHERE id = id, issued by a client; order_items cascade
RawOrderDelete(a, id) ==
    /\ LET hit == {r \in orders : r.id = id /\ OrderDeletePolicy(a, r)}
       IN  /\ orders' = orders \ hit
           /\ order_items' = {i \in order_items : i.order_id \notin {r.id : r \in hit}}
           /\ resp' = Resp("order_delete", a, id, "ok", {}, Cardinality(hit))
    /\ UNCHANGED <<dbAuth, dbCatalog, dbCart, nextOrderId, nextItemId, clientVars>>

\* UPDATE order_items SET unit_price = val WHERE id = id, issued by a client
RawItemUpdate(a, id, val) ==
    /\ LET hit == {r \in order_items : r.id = id /\ ItemUpdatePolicy(a, r)}
       IN  /\ order_items' =
                (order_items \ hit) \cup {[r EXCEPT !.unit_price = val] : r \in hit}
           /\ resp' = Resp("item_update", a, id, "ok", {},
                           Cardinality(hit))
    /\ UNCHANGED <<dbAuth, dbCatalog, dbCart, orders, nextOrderId, nextItemId,
                   clientVars>>

\* DELETE FROM order_items WHERE id = id, issued by a client
RawItemDelete(a, id) ==
    /\ LET hit == {r \in order_items : r.id = id /\ ItemDeletePolicy(a, r)}
       IN  /\ order_items' = order_items \ hit
           /\ resp' = Resp("item_delete", a, id, "ok", {}, Cardinality(hit))
    /\ UNCHANGED <<dbAuth, dbCatalog, dbCart, orders, nextOrderId, nextItemId,
                   clientVars>>

\* SELECT * FROM order_items, issued by a client
RawItemSelect(a) ==
    /\ resp' = Resp("item_select", a, NULL, "ok",
                    {i \in order_items : ItemSelectPolicy(a, i)}, 0)
    /\ UNCHANGED <<dbAuth, dbCatalog, dbCart, dbOrders, clientVars>>

FetchOrdersItemJoined(uid, i) ==
    [id |-> i.id, quantity |-> i.quantity,
     unit_price |-> products[i.product_id].price,
     product |-> IF ProductEmbed(uid, i.product_id) = NoProduct THEN NoProduct
                 ELSE [name |-> i.product_id]]
\* order_items ( quantity, unit_price, product:products ( name, image_url ) );
\* id stands for the place of the item in the returned array
FetchOrdersItem(uid, i) ==
    [id |-> i.id, quantity |-> i.quantity, unit_price |-> i.unit_price,
     product |-> IF ProductEmbed(uid, i.product_id) = NoProduct THEN NoProduct
                 ELSE [name |-> i.product_id]]

\* Orders.fetchOrders: orders of user.id with their items embedded
FetchOrdersRows(uid, target) ==
    {[id |-> o.id, total_amount |-> o.total_amount, delivery_fee |-> o.delivery_fee,
      status |-> o.status, payment_method |-> o.payment_method,
      order_items |-> {FetchOrdersItem(uid, i) :
                         i \in {j \in order_items :
                                  j.order_id = o.id /\ ItemSelectPolicy(uid, j)}}] :
        o \in {r \in orders : r.user_id = target /\ OrderSelectPolicy(uid, r)}}

FetchOrders(a, target) ==
    /\ resp' = Resp("fetch_orders", a, target, "ok", FetchOrdersRows(a, target), 0)
    /\ UNCHANGED <<dbAuth, dbCatalog, dbCart, dbOrders, clientVars>>

\* DELETE FROM auth.users by the authentication subsystem: profiles, cart and
\* orders cascade on user_id, order_items cascade on order_id
AdminDeleteUser(u) ==
    /\ u \in authUsers
    /\ authUsers' = authUsers \ {u}
    /\ profiles' = {r \in profiles : r.user_id # u}
    /\ cart' = {r \in cart : r.user_id # u}
    /\ orders' = {r \in orders : r.user_id # u}
    /\ order_items' =
         {i \in order_items : i.order_id \notin {o.id : o \in {r \in orders : r.user_id = u}}}
    /\ resp' = Resp("admin_user_delete", "service", u, "ok", {}, 1)
    /\ UNCHANGED <<nextProfileId, dbCatalog, nextCartId, nextOrderId, nextItemId,
                   clientVars>>

(***************************************************************************)
(* Client sessions.                                                        *)
(***************************************************************************)
\* AuthForm.handleSubmit, mode login: signInWithPassword
Login(c, u) ==
    /\ session[c] = NULL
    /\ u \in authUsers
    /\ session' = [session EXCEPT ![c] = u]
    /\ resp' = NoResp
    /\ UNCHANGED <<dbAuth, dbCatalog, dbCart, dbOrders, homeCart, card, cartItems,
                   restVars>>

\* Account.handleLogout: signOut
Logout(c) ==
    /\ session[c] # NULL
    /\ session' = [session EXCEPT ![c] = NULL]
    /\ resp' = NoResp
    /\ UNCHANGED <<dbAuth, dbCatalog, dbCart, dbOrders, homeCart, card, cartItems,
                   restVars>>

(***************************************************************************)
(* Home: the cart snapshot the product cards are rendered from.           *)
(***************************************************************************)
\* Home.fetchCartItems: select('product_id, quantity').eq('user_id', user.id)
HomeFetchCartItems(c) ==
    /\ session[c] # NULL
    /\ LET rows == CartSelectRows(session[c], session[c])
       IN  /\ homeCart' = [homeCart EXCEPT ![c] =
                 {[product_id |-> r.product_id, quantity |-> r.quantity] : r \in rows}]
           /\ resp' = Resp("cart_select", session[c], session[c], "ok", rows, 0)
    /\ UNCHANGED <<dbAuth, dbCatalog, dbCart, dbOrders, session, card, cartItems,
                   restVars>>

\* Home.getCartQuantity: the first item found for the product, or 0
GetCartQuantity(c, p) ==
    LET found == {i \in homeCart[c] : i.product_id = p}
    IN  IF found = {} THEN 0 ELSE (CHOOSE i \in found : TRUE).quantity

(***************************************************************************)
(* ProductCard: addToCart and updateQuantity, one step per await.         *)
(***************************************************************************)
\* pc: where the handler stands; seen: the cartQuantity it was called with;
\* q: the quantity it writes; uid: session.user.id; status: the statement's outcome
CardIdle == [pc |-> "idle", op |-> "none", seen |-> 0, q |-> 0, uid |-> NULL,
             status |-> "none"]
InFlight == Cardinality({cp \in Clients \X Products : card[cp[1]][cp[2]].pc # "idle"})

\* the ADD button (shown while cartQuantity is 0): addToCart up to getSession
AddToCartClick(c, p) ==
    /\ card[c][p].pc = "idle"
    /\ InFlight < MaxInFlight
    /\ GetCartQuantity(c, p) = 0
    /\ products[p].stock_quantity # 0
    /\ card' = [card EXCEPT ![c][p] =
                   [CardIdle EXCEPT !.pc = "session", !.op = "add",
                                    !.seen = GetCartQuantity(c, p),
                                    !.q = GetCartQuantity(c, p) + 1]]
    /\ resp' = NoResp
    /\ UNCHANGED <<dbAuth, dbCatalog, dbCart, dbOrders, session, homeCart, cartItems,
                   restVars>>

\* the minus and plus buttons (shown while cartQuantity > 0):
\* updateQuantity(cartQuantity - 1) and updateQuantity(cartQuantity + 1)
UpdateQuantityClick(c, p, delta) ==
    /\ card[c][p].pc = "idle"
    /\ InFlight < MaxInFlight
    /\ GetCartQuantity(c, p) > 0
    /\ delta = 1 => GetCartQuantity(c, p) < products[p].stock_quantity
    /\ GetCartQuantity(c, p) + delta <= MaxQty
    /\ ~(GetCartQuantity(c, p) + delta < 0)
    /\ card' = [card EXCEPT ![c][p] =
                   [CardIdle EXCEPT !.pc = "session", !.op = "update",
                                    !.seen = GetCartQuantity(c, p),
                                    !.q = GetCartQuantity(c, p) + delta]]
    /\ resp' = NoResp
    /\ UNCHANGED <<dbAuth, dbCatalog, dbCart, dbOrders, session, homeCart, cartItems,
                   restVars>>

\* the quantities a handler may be called with
QuantityArgs == {-1, 0, 1}

\* ProductCard.updateQuantity(newQuantity) as a call: a negative newQuantity
\* returns before anything is sent, otherwise the handler runs to getSession
UpdateQuantityCall(c, p, newQuantity) ==
    /\ card[c][p].pc = "idle"
    /\ InFlight < MaxInFlight
    /\ IF newQuantity < 0
       THEN /\ resp' = Resp("card_return", session[c],
                            [user_id |-> session[c], product_id |-> p,
                             quantity |-> newQuantity], "returned", {}, 0)
            /\ UNCHANGED card
       ELSE /\ card' = [card EXCEPT ![c][p] =
                           [CardIdle EXCEPT !.pc = "session", !.op = "update",
                                            !.seen = GetCartQuantity(c, p),
                                            !.q = newQuantity]]
            /\ resp' = NoResp
    /\ UNCHANGED <<dbAuth, dbCatalog, dbCart, dbOrders, session, homeCart, cartItems,
                   restVars>>

\* await supabase.auth.getSession(); without a session the handler leaves
\* through finally
CardGetSession(c, p) ==
    /\ card[c][p].pc = "session"
    /\ card' = [card EXCEPT ![c][p] =
                   IF session[c] = NULL
                   THEN [CardIdle EXCEPT !.pc = "finally", !.status = "no_session"]
                   ELSE [@ EXCEPT !.pc = "write", !.uid = session[c]]]
    /\ resp' = NoResp
    /\ UNCHANGED <<dbAuth, dbCatalog, dbCart, dbOrders, session, homeCart, cartItems,
                   restVars>>

\* the awaited statement: delete for a new quantity of 0, upsert otherwise
CardWrite(c, p) ==
    /\ card[c][p].pc = "write"
    /\ LET k == card[c][p]
           f == {r \in cart : r.user_id = k.uid /\ r.product_id = p}
           del == CartDeleteOutcome(session[c], f)
           ups == CartUpsertOutcome(session[c], k.uid, p, k.q)
       IN  IF k.q = 0
           THEN /\ cart' = del.cart
                /\ UNCHANGED nextCartId
                /\ resp' = Resp("cart_delete_pair", session[c],
                                [user_id |-> k.uid, product_id |-> p, quantity |-> k.q],
                                del.status, {}, del.affected)
                /\ card' = [card EXCEPT ![c][p] =
                               [k EXCEPT !.pc = "finally", !.status = del.status]]
           ELSE /\ ups.inserted => nextCartId <= MaxCartIds
                /\ cart' = ups.cart
                /\ nextCartId' = IF ups.inserted THEN nextCartId + 1 ELSE nextCartId
                /\ resp' = Resp("cart_upsert", session[c],
                                [user_id |-> k.uid, product_id |-> p, quantity |-> k.q],
                                ups.status, {}, IF ups.status = "ok" THEN 1 ELSE 0)
                /\ card' = [card EXCEPT ![c][p] =
                               [k EXCEPT !.pc = "finally", !.status = ups.status]]
    /\ UNCHANGED <<dbAuth, dbCatalog, dbOrders, session, homeCart, cartItems,
                   restVars>>

\* a handler that returns without its finally block: loading stays true
CardReturnNoFinally(c, p) ==
    /\ card[c][p].pc = "finally"
    /\ card' = [card EXCEPT ![c][p] = [@ EXCEPT !.pc = "returned"]]
    /\ resp' = NoResp
    /\ UNCHANGED <<dbAuth, dbCatalog, dbCart, dbOrders, session, homeCart, cartItems,
                   restVars>>

\* finally { setLoading(false) }
CardFinally(c, p) ==
    /\ card[c][p].pc = "finally"
    /\ card' = [card EXCEPT ![c][p] = CardIdle]
    /\ resp' = NoResp
    /\ UNCHANGED <<dbAuth, dbCatalog, dbCart, dbOrders, session, homeCart, cartItems,
                   restVars>>

(***************************************************************************)
(* Cart page: the cart snapshot with the product embedded.                *)
(***************************************************************************)
\* Cart.fetchCartItems: select('id, quantity, product:products(...)')
CartFetchCartItems(c) ==
    /\ session[c] # NULL
    /\ LET rows == {[id |-> r.id, quantity |-> r.quantity,
                      product |-> ProductEmbed(session[c], r.product_id)] :
                        r \in CartSelectRows(session[c], session[c])}
       IN  /\ cartItems' = [cartItems EXCEPT ![c] = rows]
           /\ resp' = Resp("cart_fetch", session[c], session[c], "ok", rows, 0)
    /\ UNCHANGED <<dbAuth, dbCatalog, dbCart, dbOrders, session, homeCart, card,
                   restVars>>

\* what Cart.fetchCartItems reads for client c when the cart table is table
CartPageRows(c, table) ==
    {[id |-> r.id, quantity |-> r.quantity,
      product |-> ProductEmbed(session[c], r.product_id)] :
        r \in {x \in table : x.user_id = session[c] /\ CartSelectPolicy(session[c], x)}}

\* Cart.updateQuantity(cartItemId, newQuantity) for an item the page shows:
\* a negative newQuantity returns at once; 0 deletes by id, any other value
\* updates by id; fetchCartItems follows a write that raised no error.
\* resp is the response of the write.
CartUpdateQuantity(c, cartItemId, newQuantity) ==
    /\ session[c] # NULL
    /\ \E item \in cartItems[c] : item.id = cartItemId
    /\ LET arg == [id |-> cartItemId, quantity |-> newQuantity]
           del == CartDeleteOutcome(session[c], {r \in cart : r.id = cartItemId})
           upd == CartUpdateOutcome(session[c], cartItemId, "quantity", newQuantity)
       IN  IF newQuantity < 0
           THEN /\ resp' = Resp("cart_page_return", session[c], arg, "returned", {}, 0)
                /\ UNCHANGED <<cart, cartItems>>
           ELSE IF newQuantity = 0
           THEN /\ cart' = del.cart
                /\ resp' = Resp("cart_page_delete", session[c], arg, del.status, {},
                                del.affected)
                /\ cartItems' = [cartItems EXCEPT ![c] = CartPageRows(c, del.cart)]
           ELSE /\ cart' = upd.cart
                /\ resp' = Resp("cart_page_update", session[c], arg, upd.status, {},
                                upd.affected)
                /\ cartItems' = IF upd.status = "ok"
                                THEN [cartItems EXCEPT ![c] = CartPageRows(c, upd.cart)]
                                ELSE cartItems
    /\ UNCHANGED <<dbAuth, dbCatalog, nextCartId, dbOrders, session, homeCart, card,
                   restVars>>

\* Cart.removeFromCart(cartItemId): delete by id, then fetchCartItems
CartRemoveFromCart(c, cartItemId) ==
    /\ session[c] # NULL
    /\ \E item \in cartItems[c] : item.id = cartItemId
    /\ LET del == CartDeleteOutcome(session[c], {r \in cart : r.id = cartItemId})
       IN  /\ cart' = del.cart
           /\ resp' = Resp("cart_page_remove", session[c],
                           [id |-> cartItemId, quantity |-> 0], del.status, {},
                           del.affected)
           /\ cartItems' = [cartItems EXCEPT ![c] = CartPageRows(c, del.cart)]
    /\ UNCHANGED <<dbAuth, dbCatalog, nextCartId, dbOrders, session, homeCart, card,
                   restVars>>

(***************************************************************************)
(* Cart page, handler by handler step: a click sends the write; the       *)
(* write's response starts fetchCartItems, or ends the call on an error;  *)
(* the fetch's response ends the call.                                     *)
(***************************************************************************)
CallSlots == 1..MaxInFlight

\* an invocation of updateQuantity ("update") or removeFromCart ("remove")
\* that has not returned: pc is "write" while its write is in flight and
\* "fetching" while its fetchCartItems is
CartCall(n, id, kind, q, pc) == [n |-> n, id |-> id, kind |-> kind, q |-> q, pc |-> pc]

FreeSlot(c, n) ==
    /\ \A k \in cartCalls[c] : k.n # n
    /\ \A m \in CallSlots : m < n => \E k \in cartCalls[c] : k.n = m

\* the list is rendered when there is a user and loading is false, and
\* rendering it reads item.product.image_url of every item
CartListShown(c) ==
    /\ session[c] # NULL /\ ~cartLoading[c] /\ cartItems[c] # {}
    /\ \A i \in cartItems[c] : i.product # NoProduct

\* disabled={updating === item.id}
CartControlDisabled(c, id) == updating[c] = {id}

\* the minus (delta = -1) or plus (delta = 1) button of a line:
\* updateQuantity(item.id, item.quantity + delta), up to its first await
CartQuantityButton(c, id, delta) ==
    /\ CartListShown(c)
    /\ ~CartControlDisabled(c, id)
    /\ \E item \in cartItems[c], n \in CallSlots :
          /\ item.id = id /\ FreeSlot(c, n)
          /\ delta = 1 => ~(item.quantity >= item.product.stock_quantity)
          /\ item.quantity + delta <= MaxQty
          /\ IF item.quantity + delta < 0
             THEN UNCHANGED <<updating, cartCalls>>
             ELSE /\ updating' = [updating EXCEPT ![c] = {id}]
                  /\ cartCalls' = [cartCalls EXCEPT ![c] =
                        @ \cup {CartCall(n, id, "update", item.quantity + delta, "write")}]
    /\ resp' = NoResp
    /\ UNCHANGED <<dbAuth, dbCatalog, dbCart, dbOrders, session, homeCart, card,
                   cartItems, cartLoading, stampVars, homeVars, authVars>>

\* the remove button of a line: removeFromCart(item.id), up to its await
CartRemoveButton(c, id) ==
    /\ CartListShown(c)
    /\ ~CartControlDisabled(c, id)
    /\ \E item \in cartItems[c], n \in CallSlots :
          /\ item.id = id /\ FreeSlot(c, n)
          /\ updating' = [updating EXCEPT ![c] = {id}]
          /\ cartCalls' = [cartCalls EXCEPT ![c] =
                @ \cup {CartCall(n, id, "remove", 0, "write")}]
    /\ resp' = NoResp
    /\ UNCHANGED <<dbAuth, dbCatalog, dbCart, dbOrders, session, homeCart, card,
                   cartItems, cartLoading, stampVars, homeVars, authVars>>

\* the write of a call is executed and its response handled: on an error
\* the catch block and finally run (setUpdating(null)); otherwise
\* fetchCartItems starts (setLoading(true) when there is a user)
CartCallWrite(c, n) ==
    \E k \in cartCalls[c] :
       /\ k.n = n /\ k.pc = "write"
       /\ LET arg == [id |-> k.id, quantity |-> k.q]
              del == CartDeleteOutcome(session[c], {r \in cart : r.id = k.id})
              upd == CartUpdateOutcome(session[c], k.id, "quantity", k.q)
              out == IF k.kind = "remove" \/ k.q = 0 THEN del ELSE upd
              op == IF k.kind = "remove" THEN "cart_page_remove"
                    ELSE IF k.q = 0 THEN "cart_page_delete" ELSE "cart_page_update"
          IN  /\ cart' = out.cart
              /\ resp' = Resp(op, session[c], arg, out.status, {}, out.affected)
              /\ IF out.status # "ok"
                 THEN /\ cartCalls' = [cartCalls EXCEPT ![c] = @ \ {k}]
                      /\ updating' = [updating EXCEPT ![c] = {}]
                      /\ UNCHANGED cartLoading
                 ELSE IF session[c] = NULL
                 THEN /\ cartCalls' = [cartCalls EXCEPT ![c] = @ \ {k}]
                      /\ updating' = [updating EXCEPT ![c] = {}]
                      /\ UNCHANGED cartLoading
                 ELSE /\ cartCalls' = [cartCalls EXCEPT ![c] =
                            (@ \ {k}) \cup {[k EXCEPT !.pc = "fetching"]}]
                      /\ cartLoading' = [cartLoading EXCEPT ![c] = TRUE]
                      /\ UNCHANGED updating
       /\ UNCHANGED <<dbAuth, dbCatalog, nextCartId, dbOrders, session, homeCart, card,
                      cartItems, stampVars, homeVars, authVars>>

\* the select of a call's fetchCartItems returns: setCartItems,
\* setLoading(false), and the handler's finally: setUpdating(null)
CartCallFetched(c, n) ==
    \E k \in cartCalls[c] :
       /\ k.n = n /\ k.pc = "fetching"
       /\ cartItems' = [cartItems EXCEPT ![c] = CartPageRows(c, cart)]
       /\ cartLoading' = [cartLoading EXCEPT ![c] = FALSE]
       /\ updating' = [updating EXCEPT ![c] = {}]
       /\ cartCalls' = [cartCalls EXCEPT ![c] = @ \ {k}]
       /\ resp' = Resp("cart_fetch", session[c], session[c], "ok",
                       CartPageRows(c, cart), 0)
       /\ UNCHANGED <<dbAuth, dbCatalog, dbCart, dbOrders, session, homeCart, card,
                      stampVars, homeVars, authVars>>

RECURSIVE SumOf(_, _)
\* items.reduce((total, item) => total + f[item], 0)
SumOf(f, S) ==
    IF S = {} THEN 0
    ELSE LET x == CHOOSE y \in S : TRUE IN f[x] + SumOf(f, S \ {x})

\* Cart.calculateTotal over the snapshot
CalculateTotal(c) ==
    LET f == [item \in cartItems[c] |-> item.product.price * item.quantity]
    IN  SumOf(f, cartItems[c])

(***************************************************************************)
(* Catalog reads.                                                          *)
(***************************************************************************)
ProductName(p) ==
    IF p = "banana" THEN <<"B", "a", "n", "a", "n", "a">> ELSE <<"M", "i", "l", "k">>
ProductBrand(p) ==
    IF p = "banana" THEN <<"F", "r", "e", "s", "h">> ELSE <<"A", "m", "u", "l">>

Lower(ch) ==
    CASE ch = "A" -> "a" [] ch = "B" -> "b" [] ch = "F" -> "f"
      [] ch = "M" -> "m" [] ch = "I" -> "i" [] ch = "L" -> "l" [] ch = "K" -> "k"
      [] OTHER -> ch

RECURSIVE Like(_, _)
\* str ILIKE pat: % matches any run of characters, _ any one character
Like(str, pat) ==
    IF pat = <<>> THEN str = <<>>
    ELSE IF Head(pat) = "%"
         THEN Like(str, Tail(pat)) \/ (str # <<>> /\ Like(Tail(str), pat))
    ELSE IF str = <<>> THEN FALSE
    ELSE IF Head(pat) = "_" THEN Like(Tail(str), Tail(pat))
    ELSE Lower(Head(str)) = Lower(Head(pat)) /\ Like(Tail(str), Tail(pat))

\* name.ilike.%term%,brand.ilike.%term%
NameOrBrandILike(p, term) ==
    \/ Like(ProductName(p), <<"%">> \o term \o <<"%">>)
    \/ Like(ProductBrand(p), <<"%">> \o term \o <<"%">>)

SearchTerms == {<<>>, <<"m", "i", "l", "k">>, <<"M", "I">>, <<"a">>, <<"x">>}

\* Home.fetchProducts: the query built from selectedCategory and searchQuery
FetchProductsRows(uid, category, term) ==
    {p \in Products :
        /\ ProductSelectPolicy(uid, products[p])
        /\ products[p].is_active = T
        /\ category # NULL => products[p].category_id = category
        /\ term # <<>> => NameOrBrandILike(p, term)}

FetchProducts(a, category, term) ==
    /\ resp' = Resp("fetch_products", a, [category |-> category, term |-> term], "ok",
                    FetchProductsRows(a, category, term), 0)
    /\ UNCHANGED <<dbAuth, dbCatalog, dbCart, dbOrders, clientVars>>

\* the effect on [selectedCategory, searchQuery] calls fetchProducts after a
\* render in which one of them changed: setLoading(true), and the query for
\* the filter of that render is sent
HomeFilterChanged(c, category, term) ==
    /\ Cardinality(homeFetches[c] \cup {[category |-> category, term |-> term]})
          <= MaxInFlight
    /\ selectedCategory' = [selectedCategory EXCEPT ![c] = category]
    /\ searchQuery' = [searchQuery EXCEPT ![c] = term]
    /\ homeLoading' = [homeLoading EXCEPT ![c] = TRUE]
    /\ homeFetches' = [homeFetches EXCEPT ![c] =
                          @ \cup {[category |-> category, term |-> term]}]
    /\ resp' = NoResp
    /\ UNCHANGED <<dbAuth, dbCatalog, dbCart, dbOrders, session, homeCart, card,
                   cartItems, pageVars, stampVars, authVars, homeProducts>>

\* Home.handleCategorySelect: a second click on the selected category
\* clears the selection
HomeCategorySelect(c, categoryId) ==
    HomeFilterChanged(c, IF selectedCategory[c] = categoryId THEN NULL ELSE categoryId,
                      searchQuery[c])

\* onChange of the search box: setSearchQuery
HomeSearchInput(c, term) ==
    /\ term # searchQuery[c]
    /\ HomeFilterChanged(c, selectedCategory[c], term)

\* the response of one fetchProducts call arrives: setProducts(data), then
\* finally setLoading(false)
HomeFetchProductsDone(c, category, term) ==
    /\ [category |-> category, term |-> term] \in homeFetches[c]
    /\ homeProducts' = [homeProducts EXCEPT ![c] =
                           FetchProductsRows(session[c], category, term)]
    /\ homeLoading' = [homeLoading EXCEPT ![c] = FALSE]
    /\ homeFetches' = [homeFetches EXCEPT ![c] =
                          @ \ {[category |-> category, term |-> term]}]
    /\ resp' = Resp("fetch_products", session[c],
                    [category |-> category, term |-> term], "ok",
                    FetchProductsRows(session[c], category, term), 0)
    /\ UNCHANGED <<dbAuth, dbCatalog, dbCart, dbOrders, session, homeCart, card,
                   cartItems, pageVars, stampVars, authVars, selectedCategory,
                   searchQuery>>

\* Home.fetchCategories: select('*').eq('is_active', true)
FetchCategoriesRows(uid) ==
    {c \in Categories :
        CategorySelectPolicy(uid, categories[c]) /\ categories[c].is_active = T}

FetchCategories(a) ==
    /\ resp' = Resp("fetch_categories", a, NULL, "ok", FetchCategoriesRows(a), 0)
    /\ UNCHANGED <<dbAuth, dbCatalog, dbCart, dbOrders, clientVars>>

\* SELECT * FROM products / categories with no filter of the client's own
RawProductSelect(a) ==
    /\ resp' = Resp("product_select", a, NULL, "ok",
                    {p \in Products : ProductSelectPolicy(a, products[p])}, 0)
    /\ UNCHANGED <<dbAuth, dbCatalog, dbCart, dbOrders, clientVars>>

RawCategorySelect(a) ==
    /\ resp' = Resp("category_select", a, NULL, "ok",
                    {c \in Categories : CategorySelectPolicy(a, categories[c])}, 0)
    /\ UNCHANGED <<dbAuth, dbCatalog, dbCart, dbOrders, clientVars>>

(***************************************************************************)
(* Checkout: the order materialization of the specification's section 4.4, *)
(* one transaction over the cart lines of the Cart page.                   *)
(***************************************************************************)
CheckoutOrderNoFee(uid, lines, addr, phone, pm) ==
    LET f == [l \in lines |-> products[l.product.id].price * l.quantity]
    IN  [id |-> nextOrderId, user_id |-> uid, total_amount |-> SumOf(f, lines),
         delivery_fee |-> DeliveryFee, status |-> "pending", payment_method |-> pm,
         delivery_address |-> addr, phone |-> phone]
\* step 1: the Order row, priced from the products as they are now
CheckoutOrder(uid, lines, addr, phone, pm) ==
    LET f == [l \in lines |-> products[l.product.id].price * l.quantity]
    IN  [id |-> nextOrderId, user_id |-> uid,
         total_amount |-> SumOf(f, lines) + DeliveryFee,
         delivery_fee |-> DeliveryFee, status |-> "pending", payment_method |-> pm,
         delivery_address |-> addr, phone |-> phone]

\* step 2: one Order Item per line, unit_price the product's current price
CheckoutItem(lines, l) ==
    [id |-> nextItemId + Cardinality({m \in lines : m.id < l.id}),
     order_id |-> nextOrderId, product_id |-> l.product.id,
     quantity |-> l.quantity,
     unit_price |-> products[l.product.id].price,
     total_price |-> products[l.product.id].price * l.quantity]

CheckoutStatus(uid, lines, addr, phone, pm) ==
    LET order == CheckoutOrder(uid, lines, addr, phone, pm)
        bad == {l \in lines :
                  ItemConstraints(CheckoutItem(lines, l), orders \cup {order}) # "ok"}
    IN  IF ~OrderInsertCheck(uid, order) THEN "rls_violation"
        ELSE IF OrderConstraints(order) # "ok" THEN OrderConstraints(order)
        ELSE IF bad # {}
             THEN ItemConstraints(CheckoutItem(lines, CHOOSE l \in bad : TRUE),
                                  orders \cup {order})
        ELSE "ok"

CheckoutOutcomePartial(uid, lines, addr, phone, pm) ==
    LET order == CheckoutOrder(uid, lines, addr, phone, pm)
        st == CheckoutStatus(uid, lines, addr, phone, pm)
        orderOk == OrderInsertCheck(uid, order) /\ OrderConstraints(order) = "ok"
        good == {l \in lines :
                   ItemConstraints(CheckoutItem(lines, l), orders \cup {order}) = "ok"}
    IN  [status |-> st,
         orders |-> IF orderOk THEN orders \cup {order} ELSE orders,
         order_items |-> IF orderOk
                         THEN order_items \cup {CheckoutItem(lines, l) : l \in good}
                         ELSE order_items,
         cart |-> IF st = "ok"
                  THEN {r \in cart : ~(r.id \in {l.id : l \in lines}
                                       /\ CartDeletePolicy(uid, r))}
                  ELSE cart]
\* steps 1-3 as a unit: all three take effect, or none does
CheckoutOutcome(uid, lines, addr, phone, pm) ==
    LET order == CheckoutOrder(uid, lines, addr, phone, pm)
        st == CheckoutStatus(uid, lines, addr, phone, pm)
    IN  IF st = "ok"
        THEN [status |-> st,
              orders |-> orders \cup {order},
              order_items |-> order_items \cup {CheckoutItem(lines, l) : l \in lines},
              cart |-> {r \in cart : ~(r.id \in {l.id : l \in lines}
                                       /\ CartDeletePolicy(uid, r))}]
        ELSE [status |-> st, orders |-> orders, order_items |-> order_items,
              cart |-> cart]

Addresses == {"addr", NULL}
PaymentInputs == {"cod", "card"}

\* the Cart page's "Proceed to Checkout" for the lines it shows
Checkout(c, addr, pm) ==
    /\ session[c] # NULL
    /\ cartItems[c] # {}
    /\ \A l \in cartItems[c] : l.product # NoProduct
    /\ LET lines == cartItems[c]
           out == CheckoutOutcome(session[c], lines, addr, "9876", pm)
       IN  /\ Cardinality(out.orders) > Cardinality(orders) => nextOrderId <= MaxOrders
           /\ Cardinality(out.order_items) > Cardinality(order_items) =>
                 nextItemId + Cardinality(lines) - 1 <= MaxItems
           /\ orders' = out.orders
           /\ order_items' = out.order_items
           /\ cart' = out.cart
           /\ nextOrderId' = IF out.orders # orders THEN nextOrderId + 1 ELSE nextOrderId
           /\ nextItemId' = nextItemId + Cardinality(out.order_items \ order_items)
           /\ resp' = Resp("checkout", session[c],
                           [lines |-> lines, delivery_address |-> addr,
                            payment_method |-> pm, order_id |-> nextOrderId],
                           out.status, {}, 0)
    /\ UNCHANGED <<dbAuth, dbCatalog, nextCartId, clientVars>>

(***************************************************************************)
(* created_at and updated_at of public.cart: statements that name the     *)
(* timestamp columns, and the BEFORE UPDATE trigger.  The statements of   *)
(* the sections above name neither column and do not read them.           *)
(***************************************************************************)
Times == 0..MaxTime
\* a column the statement does not name
NotSupplied == -1
TimeInputs == Times \cup {NotSupplied}

\* time passes
Tick ==
    /\ now < MaxTime
    /\ now' = now + 1
    /\ resp' = NoResp
    /\ UNCHANGED <<dbAuth, dbCatalog, dbCart, dbOrders, session, homeCart, card,
                   cartItems, pageVars, cartTimes,
                   homeVars, authVars>>

\* update_updated_at_column(): NEW.updated_at = now(); RETURN NEW
UpdateUpdatedAtColumnKeep(new) == new
UpdateUpdatedAtColumn(new) == [new EXCEPT !.updated_at = now]

\* INSERT INTO cart (user_id, product_id, quantity [, created_at]
\* [, updated_at]): a column not named takes DEFAULT now(); no trigger fires
TimedCartInsert(a, user_id, p, q, created, updated) ==
    /\ LET out == CartUpsertOutcome(a, user_id, p, q)
       IN  /\ out.inserted => nextCartId <= MaxCartIds
           /\ cart' = out.cart
           /\ nextCartId' = IF out.inserted THEN nextCartId + 1 ELSE nextCartId
           /\ cartTimes' =
                IF out.inserted
                THEN [cartTimes EXCEPT ![nextCartId] =
                        [created_at |-> IF created = NotSupplied THEN now ELSE created,
                         updated_at |-> IF updated = NotSupplied THEN now ELSE updated]]
                ELSE cartTimes
           /\ resp' = Resp("timed_cart_insert", a, nextCartId, out.status, {},
                           IF out.status = "ok" THEN 1 ELSE 0)
    /\ UNCHANGED <<dbAuth, dbCatalog, dbOrders, session, homeCart, card, cartItems,
                   pageVars, now, homeVars, authVars>>

\* UPDATE cart SET quantity = q [, created_at = ..] [, updated_at = ..]
\* WHERE id = id: the trigger update_cart_updated_at runs before each row
\* is written
TimedCartUpdate(a, id, q, created, updated) ==
    /\ LET out == CartUpdateOutcome(a, id, "quantity", q)
           old == cartTimes[id]
           new == [created_at |-> IF created = NotSupplied THEN old.created_at
                                  ELSE created,
                   updated_at |-> IF updated = NotSupplied THEN old.updated_at
                                  ELSE updated]
       IN  /\ cart' = out.cart
           /\ cartTimes' = IF out.affected = 1
                           THEN [cartTimes EXCEPT ![id] = UpdateUpdatedAtColumn(new)]
                           ELSE cartTimes
           /\ resp' = Resp("timed_cart_update", a, id, out.status, {}, out.affected)
    /\ UNCHANGED <<dbAuth, dbCatalog, nextCartId, dbOrders, session, homeCart, card,
                   cartItems, pageVars, now, homeVars, authVars>>

(***************************************************************************)
(* Auth page and AuthForm, step by step.                                   *)
(***************************************************************************)
AuthModes == {"login", "signup", "forgot"}

\* the values of the mode parameter in the URLs the application navigates
\* or redirects to: navigate('/auth') carries none, the redirectTo of
\* resetPasswordForEmail is /auth?mode=reset
ModeParams == {NULL, "reset"}

\* Auth mounts: searchParams.get("mode") || "login" becomes the mode
InitialModeLogin(param) == "login"
InitialMode(param) == IF param = NULL THEN "login" ELSE param

AuthOpen(c, param) ==
    /\ authCall[c] = "none"
    /\ authMode' = [authMode EXCEPT ![c] = InitialMode(param)]
    /\ dataConsent' = [dataConsent EXCEPT ![c] = FALSE]
    /\ authLoading' = [authLoading EXCEPT ![c] = FALSE]
    /\ resp' = NoResp
    /\ UNCHANGED <<dbAuth, dbCatalog, dbCart, dbOrders, session, homeCart, card,
                   cartItems, pageVars, stampVars, homeVars, authCall>>

\* the links of the form: back to login (shown unless mode is login),
\* forgot and sign up (shown in mode login), login (shown in mode signup)
AuthModeChange(c, m) ==
    /\ \/ m = "login" /\ authMode[c] # "login"
       \/ m \in {"forgot", "signup"} /\ authMode[c] = "login"
    /\ authMode' = [authMode EXCEPT ![c] = m]
    /\ resp' = NoResp
    /\ UNCHANGED <<dbAuth, dbCatalog, dbCart, dbOrders, session, homeCart, card,
                   cartItems, pageVars, stampVars, homeVars, dataConsent, authLoading,
                   authCall>>

\* the consent checkbox, shown in mode signup
AuthSetDataConsent(c, checked) ==
    /\ authMode[c] = "signup"
    /\ dataConsent' = [dataConsent EXCEPT ![c] = checked]
    /\ resp' = NoResp
    /\ UNCHANGED <<dbAuth, dbCatalog, dbCart, dbOrders, session, homeCart, card,
                   cartItems, pageVars, stampVars, homeVars, authMode, authLoading,
                   authCall>>

\* what handleSubmit sends for a mode: the request of the branch taken,
\* "none" when it returns for want of consent or when no branch matches
SubmitRequest(mode, consent) ==
    IF mode = "signup" THEN (IF consent THEN "signup" ELSE "none")
    ELSE IF mode = "login" THEN "login"
    ELSE IF mode = "forgot" THEN "forgot"
    ELSE "none"

\* handleSubmit up to its await (the submit button is disabled while
\* loading): setLoading(true), then the request is sent; without a request
\* the handler ends at once with setLoading(false)
AuthSubmit(c) ==
    /\ ~authLoading[c]
    /\ LET req == SubmitRequest(authMode[c], dataConsent[c])
       IN  /\ authCall' = [authCall EXCEPT ![c] = req]
           /\ authLoading' = [authLoading EXCEPT ![c] = req # "none"]
           /\ resp' = Resp("auth_submit", session[c], authMode[c],
                           IF req = "none" THEN "returned" ELSE "sent", {}, 0)
    /\ UNCHANGED <<dbAuth, dbCatalog, dbCart, dbOrders, session, homeCart, card,
                   cartItems, pageVars, stampVars, homeVars, authMode, dataConsent>>

\* the response of the request arrives, for the identity u the form names:
\* signUp creates the identity and its profile, or fails when it exists;
\* signInWithPassword opens the session, or fails; resetPasswordForEmail
\* sends a mail.  finally: setLoading(false)
AuthResponse(c, u, meta) ==
    /\ authCall[c] # "none"
    /\ LET row == HandleNewUser(u, meta)
           created == /\ authCall[c] = "signup" /\ u \notin authUsers
                      /\ nextProfileId <= MaxProfileIds
                      /\ ProfileLanguageCheck(row)
                      /\ ProfileUserIdUnique(row, profiles)
           signedIn == authCall[c] = "login" /\ u \in authUsers
       IN  /\ authUsers' = IF created THEN authUsers \cup {u} ELSE authUsers
           /\ profiles' = IF created THEN profiles \cup {row} ELSE profiles
           /\ nextProfileId' = IF created THEN nextProfileId + 1 ELSE nextProfileId
           /\ session' = IF signedIn THEN [session EXCEPT ![c] = u] ELSE session
           /\ resp' = Resp("auth_response", u, authCall[c],
                           IF created \/ signedIn \/ authCall[c] = "forgot"
                           THEN "ok" ELSE "error", {}, 0)
    /\ authCall' = [authCall EXCEPT ![c] = "none"]
    /\ authLoading' = [authLoading EXCEPT ![c] = FALSE]
    /\ UNCHANGED <<dbCatalog, dbCart, dbOrders, homeCart, card, cartItems, pageVars,
                   stampVars, homeVars, authMode, dataConsent>>

(***************************************************************************)
(* Initial states.                                                         *)
(***************************************************************************)
\* the database right after the migration, and freshly loaded clients
Init ==
    /\ authUsers = {}
    /\ profiles = {}
    /\ nextProfileId = 1
    /\ categories = SeedCategories
    /\ products = SeedProducts
    /\ cart = {}
    /\ nextCartId = 1
    /\ orders = {}
    /\ nextOrderId = 1
    /\ order_items = {}
    /\ nextItemId = 1
    /\ resp = NoResp
    /\ session = [c \in Clients |-> NULL]
    /\ homeCart = [c \in Clients |-> {}]
    /\ card = [c \in Clients |-> [p \in Products |-> CardIdle]]
    /\ cartItems = [c \in Clients |-> {}]
    /\ updating = [c \in Clients |-> {}]
    /\ cartLoading = [c \in Clients |-> FALSE]
    /\ cartCalls = [c \in Clients |-> {}]
    /\ now = 0
    /\ cartTimes = [id \in 1..MaxCartIds |-> [created_at |-> 0, updated_at |-> 0]]
    /\ selectedCategory = [c \in Clients |-> NULL]
    /\ searchQuery = [c \in Clients |-> <<>>]
    /\ homeProducts = [c \in Clients |-> {}]
    /\ homeLoading = [c \in Clients |-> TRUE]
    /\ homeFetches = [c \in Clients |-> {[category |-> NULL, term |-> <<>>]}]
    /\ authMode = [c \in Clients |-> "login"]
    /\ dataConsent = [c \in Clients |-> FALSE]
    /\ authLoading = [c \in Clients |-> FALSE]
    /\ authCall = [c \in Clients |-> "none"]

\* the same, after u1 and then u2 have signed up through AuthForm
InitSignedUp ==
    /\ authUsers = Users
    /\ profiles = {ProfileDefaults(1, "u1", "Asha"), ProfileDefaults(2, "u2", "Asha")}
    /\ nextProfileId = 3
    /\ categories = SeedCategories
    /\ products = SeedProducts
    /\ cart = {}
    /\ nextCartId = 1
    /\ orders = {}
    /\ nextOrderId = 1
    /\ order_items = {}
    /\ nextItemId = 1
    /\ resp = NoResp
    /\ session = [c \in Clients |-> NULL]
    /\ homeCart = [c \in Clients |-> {}]
    /\ card = [c \in Clients |-> [p \in Products |-> CardIdle]]
    /\ cartItems = [c \in Clients |-> {}]
    /\ updating = [c \in Clients |-> {}]
    /\ cartLoading = [c \in Clients |-> FALSE]
    /\ cartCalls = [c \in Clients |-> {}]
    /\ now = 0
    /\ cartTimes = [id \in 1..MaxCartIds |-> [created_at |-> 0, updated_at |-> 0]]
    /\ selectedCategory = [c \in Clients |-> NULL]
    /\ searchQuery = [c \in Clients |-> <<>>]
    /\ homeProducts = [c \in Clients |-> {}]
    /\ homeLoading = [c \in Clients |-> TRUE]
    /\ homeFetches = [c \in Clients |-> {[category |-> NULL, term |-> <<>>]}]
    /\ authMode = [c \in Clients |-> "login"]
    /\ dataConsent = [c \in Clients |-> FALSE]
    /\ authLoading = [c \in Clients |-> FALSE]
    /\ authCall = [c \in Clients |-> "none"]

(***************************************************************************)
(* Specifications.                                                         *)
(***************************************************************************)
\* identities and profiles
NextAuth ==
    \/ \E u \in Users, m \in MetaData : SignUp(u, m)
    \/ \E u \in Users, m \in MetaData : RetryProvision(u, m)
    \/ \E u \in Users : AdminDeleteUser(u)
    \/ \E a \in Actors, u \in Users, l \in Languages \cup {"fr"} : RawProfileInsert(a, u, l)
    \/ \E a \in Actors, u \in Users : ProfileSelect(a, u)
    \/ \E a \in Actors, u \in Users, l \in Languages \cup {"fr"} :
          RawProfileUpdate(a, u, "language", l)
    \/ \E a \in Actors, u \in Users, v \in Users : RawProfileUpdate(a, u, "user_id", v)
    \/ \E a \in Actors, u \in Users : RawProfileDelete(a, u)

SpecAuth == Init /\ [][NextAuth]_vars

\* cart statements of any requester, in any order
NextCart ==
    \/ \E a \in Actors, u \in Users, p \in Products, q \in QtyInputs : CartUpsert(a, u, p, q)
    \/ \E a \in Actors, id \in CartIds, q \in QtyInputs : CartUpdate(a, id, "quantity", q)
    \/ \E a \in Actors, id \in CartIds, p \in Products : CartUpdate(a, id, "product_id", p)
    \/ \E a \in Actors, id \in CartIds, u \in Users : CartUpdate(a, id, "user_id", u)
    \/ \E a \in Actors, id \in CartIds : CartDeleteById(a, id)
    \/ \E a \in Actors, u \in Users, p \in Products : CartDeleteByPair(a, u, p)
    \/ \E a \in Actors, u \in Users : CartSelect(a, u)
    \/ \E p \in Products : AdminDeleteProduct(p)

SpecCart == InitSignedUp /\ [][NextCart]_vars

\* the product cards of two browser sessions
NextClient ==
    \/ \E c \in Clients, u \in Users : Login(c, u)
    \/ \E c \in Clients : HomeFetchCartItems(c)
    \/ \E c \in Clients, p \in Products : AddToCartClick(c, p)
    \/ \E c \in Clients, p \in Products, d \in {-1, 1} : UpdateQuantityClick(c, p, d)
    \/ \E c \in Clients, p \in Products : CardGetSession(c, p)
    \/ \E c \in Clients, p \in Products : CardWrite(c, p)
    \/ \E c \in Clients, p \in Products : CardFinally(c, p)

SpecClient == InitSignedUp /\ [][NextClient]_vars

\* set-quantity as the handlers take it: ProductCard.updateQuantity,
\* Cart.updateQuantity and Cart.removeFromCart of two browser sessions, the
\* lines they act on added by upserts that found no line
NextSetQuantity ==
    \/ Login("c1", "u1") \/ Login("c2", "u1") \/ Login("c2", "u2")
    \/ \E p \in Products : CartUpsert("u1", "u1", p, 2)
    \/ CartUpsert("u2", "u2", "banana", 2)
    \/ \E n \in QuantityArgs : UpdateQuantityCall("c1", "banana", n)
    \/ CardGetSession("c1", "banana")
    \/ CardWrite("c1", "banana")
    \/ CardFinally("c1", "banana")
    \/ \E c \in Clients : CartFetchCartItems(c)
    \/ \E c \in Clients, id \in CartIds, n \in QuantityArgs : CartUpdateQuantity(c, id, n)
    \/ \E c \in Clients, id \in CartIds : CartRemoveFromCart(c, id)

SpecSetQuantity == InitSignedUp /\ [][NextSetQuantity]_vars

\* checkout and order history, seen from one browser
NextOrders ==
    \/ Login("c1", "u1")
    \/ \E p \in Products, q \in {1, 2} : CartUpsert("u1", "u1", p, q)
    \/ CartUpsert("u2", "u2", "banana", 1)
    \/ CartFetchCartItems("c1")
    \/ \E addr \in Addresses, pm \in PaymentInputs : Checkout("c1", addr, pm)
    \/ \E x \in {40, 45} : AdminSetProductPrice("banana", x)
    \/ \E p \in Products : AdminDeleteProduct(p)
    \/ \E a \in Users : FetchOrders(a, "u1")

SpecOrders == InitSignedUp /\ [][NextOrders]_vars

\* the catalog and its reads
NextCatalog ==
    \/ \E c \in Categories, f \in Flags : AdminSetCategoryActive(c, f)
    \/ \E p \in Products, f \in Flags : AdminSetProductActive(p, f)
    \/ \E p \in Products : AdminDeleteProduct(p)
    \/ \E a \in Actors : FetchCategories(a)
    \/ \E a \in Actors, c \in Categories \cup {NULL}, t \in SearchTerms : FetchProducts(a, c, t)
    \/ \E a \in Actors : RawProductSelect(a)
    \/ \E a \in Actors : RawCategorySelect(a)

SpecCatalog == InitSignedUp /\ [][NextCatalog]_vars

\* search terms that hold a character the LIKE pattern language reads as a
\* wildcard
WildcardTerms == {<<"b", "_", "n">>, <<"%">>}

\* the Home page's product listing for whatever the search box holds
NextSearch ==
    \/ \E p \in Products, f \in Flags : AdminSetProductActive(p, f)
    \/ \E a \in Actors, c \in Categories \cup {NULL},
          t \in SearchTerms \cup WildcardTerms : FetchProducts(a, c, t)

SpecSearch == InitSignedUp /\ [][NextSearch]_vars


\* rows stored in the tables that carry an owner, besides the profiles
RowCount == Cardinality(cart) + Cardinality(orders) + Cardinality(order_items)

\* every statement a client can send to the four owned tables
Next ==
    \/ \E a \in Actors : ProfileSelect(a, "u1")
    \/ \E a \in Actors : RawProfileUpdate(a, "u1", "language", "hi")
    \/ \E a \in Actors : RawProfileDelete(a, "u1")
    \/ \E a \in Actors : RawProfileInsert(a, "u1", "en")
    \/ \E a \in Actors : RawProfileUpdate(a, "u1", "user_id", "u2")
    \/ \E a \in Actors, id \in CartIds : CartUpdate(a, id, "user_id", "u2")
    \/ \E a \in Actors, u \in Users :
          RowCount < MaxRows /\ CartUpsert(a, u, "banana", 1)
    \/ \E a \in Actors, id \in CartIds : CartUpdate(a, id, "quantity", 2)
    \/ \E a \in Actors, id \in CartIds : CartDeleteById(a, id)
    \/ \E a \in Actors : CartSelect(a, "u1")
    \/ \E a \in Actors, v \in OrderInputs :
          /\ RowCount < MaxRows
          /\ v.status = "pending" /\ v.delivery_address = "addr"
          /\ RawOrderInsert(a, v)
    \/ \E a \in Actors, v \in ItemInputs :
          RowCount < MaxRows /\ v.product_id = "banana" /\ RawItemInsert(a, v)
    \/ \E a \in Actors, id \in OrderIds : RawOrderUpdate(a, id, "cancelled")
    \/ \E a \in Actors, id \in OrderIds : RawOrderDelete(a, id)
    \/ \E a \in Actors, id \in 1..MaxItems : RawItemUpdate(a, id, 45)
    \/ \E a \in Actors, id \in 1..MaxItems : RawItemDelete(a, id)
    \/ \E a \in Actors : RawItemSelect(a)
    \/ \E a \in Actors : FetchOrders(a, "u1")

Spec == InitSignedUp /\ [][Next]_vars

\* quantities a request may carry for a cart line or an order item, the ones
\* CHECK (quantity > 0) refuses included
QuantityWrites == {-1, 0, 1}

ItemQuantityInputs ==
    [order_id : OrderIds, product_id : {"banana"}, quantity : QuantityWrites,
     unit_price : {40}, total_price : {40}]

\* writes of quantities, by raw statements and by the cart page
NextQuantity ==
    \/ Login("c1", "u1")
    \/ \E p \in Products, q \in QuantityWrites :
          RowCount < MaxRows /\ CartUpsert("u1", "u1", p, q)
    \/ \E a \in Users, id \in CartIds, q \in {0, 2} : CartUpdate(a, id, "quantity", q)
    \/ \E v \in OrderInputs :
          /\ v.user_id = "u1" /\ v.status = "pending" /\ v.delivery_address = "addr"
          /\ RowCount < MaxRows /\ RawOrderInsert("u1", v)
    \/ \E v \in ItemQuantityInputs : RawItemInsert("u1", v)
    \/ CartFetchCartItems("c1")
    \/ \E id \in CartIds, n \in QuantityArgs : CartUpdateQuantity("c1", id, n)

SpecQuantity == InitSignedUp /\ [][NextQuantity]_vars

\* values a request may carry for an enumerated column: one of the listed
\* ones, one outside the list, and an explicit null
LanguageWrites == Languages \cup {"fr", NULL}

EnumOrderInputs ==
    [user_id : {"u1"}, total_amount : {60}, delivery_fee : {0},
     status : {"pending", "lost", NULL}, payment_method : {"cod", "card", NULL},
     delivery_address : {"addr"}, phone : {"9876"}]

\* writes of the enumerated columns by any requester
NextEnum ==
    \/ \E a \in Actors, u \in Users, l \in LanguageWrites :
          RawProfileUpdate(a, u, "language", l)
    \/ \E a \in Actors, v \in EnumOrderInputs : RawOrderInsert(a, v)

SpecEnum == InitSignedUp /\ [][NextEnum]_vars

\* rows of every table being stored, then identities and products deleted
NextDelete ==
    \/ \E u \in Users, p \in Products : RowCount < MaxRows /\ CartUpsert(u, u, p, 1)
    \/ \E v \in OrderInputs :
          /\ v.status = "pending" /\ v.delivery_address = "addr"
          /\ RowCount < MaxRows /\ RawOrderInsert(v.user_id, v)
    \/ \E u \in Users, v \in ItemInputs : RawItemInsert(u, v)
    \/ \E u \in Users : AdminDeleteUser(u)
    \/ \E p \in Products : AdminDeleteProduct(p)

SpecDelete == InitSignedUp /\ [][NextDelete]_vars

\* the Auth page, opened by the URLs the application uses
NextAuthPage ==
    \/ \E param \in ModeParams : AuthOpen("c1", param)
    \/ \E m \in AuthModes : AuthModeChange("c1", m)
    \/ \E checked \in BOOLEAN : AuthSetDataConsent("c1", checked)
    \/ AuthSubmit("c1")
    \/ \E u \in Users, meta \in MetaData : AuthResponse("c1", u, meta)
    \/ Logout("c1")

SpecAuthPage == Init /\ [][NextAuthPage]_vars

\* the handlers that set a busy flag, each followed to its end: the product
\* card of banana, the Cart page and the Auth form of one browser tab
BusyMeta == [full_name |-> "Asha", phone |-> "9876", language |-> "en",
             data_collection_consent |-> T]

\* one page is used at a time: a click on a page comes when the handlers of
\* the other pages have returned
CardQuiet == card["c1"]["banana"].pc = "idle"
CartPageQuiet == cartCalls["c1"] = {}
AuthQuiet == authCall["c1"] = "none"

NextBusy ==
    \/ Logout("c1")
    \/ /\ CartPageQuiet /\ AuthQuiet /\ nextCartId <= MaxCartIds
       /\ AddToCartClick("c1", "banana")
    \/ \E q \in QuantityArgs :
          /\ CartPageQuiet /\ AuthQuiet /\ nextCartId <= MaxCartIds
          /\ UpdateQuantityCall("c1", "banana", q)
    \/ CardGetSession("c1", "banana")
    \/ CardWrite("c1", "banana")
    \/ CardFinally("c1", "banana")
    \/ /\ CardQuiet /\ AuthQuiet /\ CartPageQuiet
       /\ CartFetchCartItems("c1")
    \/ \E id \in CartIds, delta \in {-1, 1} :
          /\ CardQuiet /\ AuthQuiet
          /\ CartQuantityButton("c1", id, delta)
    \/ \E id \in CartIds :
          /\ CardQuiet /\ AuthQuiet
          /\ CartRemoveButton("c1", id)
    \/ \E id \in CartIds :
          /\ CardQuiet /\ AuthQuiet
          /\ CartUpdateQuantity("c1", id, -1)
    \/ \E n \in CallSlots : CartCallWrite("c1", n)
    \/ \E n \in CallSlots : CartCallFetched("c1", n)
    \/ \E m \in AuthModes :
          /\ CardQuiet /\ CartPageQuiet
          /\ AuthModeChange("c1", m)
    \/ \E checked \in BOOLEAN :
          /\ CardQuiet /\ CartPageQuiet
          /\ AuthSetDataConsent("c1", checked)
    \/ /\ CardQuiet /\ CartPageQuiet
       /\ AuthSubmit("c1")
    \/ AuthResponse("c1", "u1", BusyMeta)

\* an awaited request always settles: supabase-js resolves every call with
\* data or with an error, and the continuation of the handler then runs
FairBusy ==
    /\ WF_vars(CardGetSession("c1", "banana"))
    /\ WF_vars(CardWrite("c1", "banana"))
    /\ WF_vars(CardFinally("c1", "banana"))
    /\ \A n \in CallSlots : WF_vars(CartCallWrite("c1", n))
    /\ \A n \in CallSlots : WF_vars(CartCallFetched("c1", n))
    /\ WF_vars(AuthResponse("c1", "u1", BusyMeta))

SpecBusy == InitSignedUp /\ [][NextBusy]_vars /\ FairBusy

\* the Home page of one visitor: filters changed while requests are in flight
NextHome ==
    \/ \E cat \in Categories : HomeCategorySelect("c1", cat)
    \/ \E t \in SearchTerms : HomeSearchInput("c1", t)
    \/ \E cat \in Categories \cup {NULL}, t \in SearchTerms :
          HomeFetchProductsDone("c1", cat, t)

SpecHome == InitSignedUp /\ [][NextHome]_vars

\* what a client may send with an INSERT INTO order_items for one banana
\* (price 40) or two
PricedItemInputs ==
    [order_id : OrderIds, product_id : {"banana"}, quantity : {1, 2},
     unit_price : {40, 1}, total_price : {40, 80}]

\* orders and order items inserted by their owner with values of the
\* client's choice
NextOrderInsert ==
    \/ \E v \in OrderInputs :
          v.user_id = "u1" /\ RowCount < MaxRows /\ RawOrderInsert("u1", v)
    \/ \E u \in Users, v \in PricedItemInputs : RawItemInsert(u, v)
    \/ FetchOrders("u1", "u1")

SpecOrderInsert == InitSignedUp /\ [][NextOrderInsert]_vars

\* the owner's cart and order history read while products are switched off
\* and on
NextEmbed ==
    \/ Login("c1", "u1")
    \/ \E p \in Products : RowCount < MaxRows /\ CartUpsert("u1", "u1", p, 1)
    \/ \E v \in OrderInputs :
          /\ v.user_id = "u1" /\ v.status = "pending" /\ v.delivery_address = "addr"
          /\ RowCount < MaxRows /\ RawOrderInsert("u1", v)
    \/ \E v \in ItemInputs : RawItemInsert("u1", v)
    \/ \E p \in Products, f \in Flags : AdminSetProductActive(p, f)
    \/ CartFetchCartItems("c1")
    \/ FetchOrders("u1", "u1")

SpecEmbed == InitSignedUp /\ [][NextEmbed]_vars

\* cart rows written with and without timestamp columns, as time passes
NextTimes ==
    \/ Tick
    \/ \E p \in Products, created \in TimeInputs, updated \in TimeInputs :
          TimedCartInsert("u1", "u1", p, 1, created, updated)
    \/ \E a \in Users, id \in CartIds, created \in TimeInputs, updated \in TimeInputs :
          TimedCartUpdate(a, id, 2, created, updated)

SpecTimes == InitSignedUp /\ [][NextTimes]_vars

\* the Cart page of u1 with two lines, the user clicking while calls are in
\* flight
NextCartPage ==
    \/ Login("c1", "u1")
    \/ \E p \in Products : CartUpsert("u1", "u1", p, 1)
    \/ CartFetchCartItems("c1")
    \/ \E id \in CartIds, delta \in {-1, 1} : CartQuantityButton("c1", id, delta)
    \/ \E id \in CartIds : CartRemoveButton("c1", id)
    \/ \E n \in CallSlots : CartCallWrite("c1", n)
    \/ \E n \in CallSlots : CartCallFetched("c1", n)

SpecCartPage == InitSignedUp /\ [][NextCartPage]_vars

\* the Cart page of u1 open in two browser tabs, one line in the cart
NextCartRace ==
    \/ \E c \in Clients : Login(c, "u1")
    \/ CartUpsert("u1", "u1", "banana", 1)
    \/ \E c \in Clients : CartFetchCartItems(c)
    \/ \E c \in Clients, id \in CartIds, delta \in {-1, 1} : CartQuantityButton(c, id, delta)
    \/ \E c \in Clients, n \in CallSlots : CartCallWrite(c, n)
    \/ \E c \in Clients, n \in CallSlots : CartCallFetched(c, n)

SpecCartRace == InitSignedUp /\ [][NextCartRace]_vars

(***************************************************************************)
(* Properties.                                                             *)
(***************************************************************************)
\* the identity that owns an order_items row: the owner of its parent order
ItemOwner(i) ==
    IF \E o \in orders : o.id = i.order_id
    THEN (CHOOSE o \in orders : o.id = i.order_id).user_id
    ELSE NULL

C1_ReadIsolation ==
    /\ resp.op \in {"profile_select", "cart_select"} =>
          \A r \in resp.rows : r.user_id = resp.actor
    /\ resp.op = "item_select" =>
          \A r \in resp.rows : ItemOwner(r) = resp.actor /\ resp.actor # NULL
    /\ resp.op = "fetch_orders" =>
          \A r \in resp.rows :
             /\ \E o \in orders : o.id = r.id /\ o.user_id = resp.actor
             /\ \A it \in r.order_items :
                   \E i \in order_items : i.id = it.id /\ ItemOwner(i) = resp.actor

C1_WriteIsolation ==
    /\ \A r \in profiles : r.user_id # resp'.actor => r \in profiles'
    /\ \A r \in cart : r.user_id # resp'.actor => r \in cart'
    /\ \A r \in orders : r.user_id # resp'.actor => r \in orders'
    /\ \A i \in order_items : ItemOwner(i) # resp'.actor => i \in order_items'
    /\ (resp'.op = "profile_update" /\ resp'.arg.target # resp'.actor) =>
          resp'.affected = 0
    /\ (resp'.op = "profile_delete" /\ resp'.arg # resp'.actor) =>
          resp'.affected = 0
    /\ (/\ resp'.op \in {"cart_update", "cart_delete"}
        /\ \E r \in cart : r.id = resp'.arg /\ r.user_id # resp'.actor) =>
          resp'.affected = 0
    /\ (/\ resp'.op \in {"order_update", "order_delete"}
        /\ \E r \in orders : r.id = resp'.arg /\ r.user_id # resp'.actor) =>
          resp'.affected = 0
    /\ (/\ resp'.op \in {"item_update", "item_delete"}
        /\ \E i \in order_items : i.id = resp'.arg /\ ItemOwner(i) # resp'.actor) =>
          resp'.affected = 0

\* C1: a select returns only rows owned by the requester (order items through
\* their parent order), and no statement of a requester changes, deletes or
\* counts as affected a Profile, Cart Line, Order or Order Item that another
\* identity owns; an anonymous requester sees and touches nothing.
C1_Isolation == []C1_ReadIsolation /\ [][C1_WriteIsolation]_vars

\* C1 witness: u1 owns a cart line and an order; u2 has just sent an update
\* of that very cart line, which affected no row and left the quantity at 1
C1_Witness ==
    /\ resp.op = "cart_update" /\ resp.actor = "u2" /\ resp.affected = 0
    /\ \E r \in cart : r.id = resp.arg /\ r.user_id = "u1" /\ r.quantity = 1
    /\ \E o \in orders : o.user_id = "u1"

\* C2 (as claimed): once an upsert of {user_id, product_id, quantity q > 0}
\* sent by the signed-in owner for an existing product has completed, exactly
\* one Cart Line exists for (user, product) and its quantity is q.
C2_SetQuantityStoresQ ==
    (/\ resp.op = "cart_upsert"
     /\ resp.actor = resp.arg.user_id
     /\ resp.actor \in authUsers
     /\ products[resp.arg.product_id].exists
     /\ resp.arg.quantity > 0)
    => /\ Cardinality({r \in cart : /\ r.user_id = resp.arg.user_id
                                    /\ r.product_id = resp.arg.product_id}) = 1
       /\ \A r \in cart :
             (r.user_id = resp.arg.user_id /\ r.product_id = resp.arg.product_id)
                => r.quantity = resp.arg.quantity

\* C3: the cart never holds two Cart Lines with the same (user_id, product_id).
C3_OneLinePerPair ==
    \A r1, r2 \in cart :
       (r1.user_id = r2.user_id /\ r1.product_id = r2.product_id) => r1 = r2

\* C3 witness: a line exists and a second insert for its pair was just refused
C3_Witness ==
    /\ resp.op = "cart_upsert" /\ resp.status = "unique_violation"
    /\ Cardinality(cart) = 2

\* C4 (as claimed): when two product cards of the same user and product have
\* both written an upsert while the other was still running, each having
\* observed the same cart quantity, both writes succeeded, one line exists and
\* it carries the quantity of the write that committed last.
C4_ConcurrentUpsertsMerge ==
    \A c1, c2 \in Clients, p \in Products :
       (/\ c1 # c2
        /\ card[c1][p].pc = "finally" /\ card[c2][p].pc = "finally"
        /\ card[c1][p].q > 0 /\ card[c2][p].q > 0
        /\ card[c1][p].uid # NULL /\ card[c1][p].uid = card[c2][p].uid
        /\ card[c1][p].seen = card[c2][p].seen
        /\ card[c1][p].uid = session[c1] /\ card[c2][p].uid = session[c2]
        /\ resp.op = "cart_upsert"
        /\ resp.arg.user_id = card[c1][p].uid /\ resp.arg.product_id = p)
       => /\ card[c1][p].status = "ok" /\ card[c2][p].status = "ok"
          /\ Cardinality({r \in cart : r.user_id = card[c1][p].uid
                                       /\ r.product_id = p}) = 1
          /\ \A r \in cart : (r.user_id = card[c1][p].uid /\ r.product_id = p)
                                => r.quantity = resp.arg.quantity

C5_FailedCheckout ==
    (resp'.op = "checkout" /\ resp'.status # "ok") =>
        /\ orders' = orders
        /\ order_items' = order_items
        /\ cart' = cart

C5_NoPartialOrder ==
    /\ \A o \in orders : \E i \in order_items : i.order_id = o.id
    /\ \A i \in order_items : \E o \in orders : o.id = i.order_id
    /\ (resp.op = "checkout" /\ resp.status = "ok") =>
          /\ \A l \in resp.arg.lines :
                /\ \E i \in order_items :
                      /\ i.order_id = resp.arg.order_id
                      /\ i.product_id = l.product.id
                      /\ i.quantity = l.quantity
                /\ \A r \in cart : r.id # l.id
          /\ \E o \in orders : o.id = resp.arg.order_id
    /\ (resp.op = "checkout" /\ resp.status # "ok") =>
          /\ \A o \in orders : o.id # resp.arg.order_id
          /\ \A i \in order_items : i.order_id # resp.arg.order_id

\* C5: a checkout that fails at any step leaves orders, order_items and the
\* cart exactly as they were; every Order has its Items and every Item its
\* Order in every state, and the lines of a successful checkout are gone from
\* the cart in the state that first shows its Order.
C5_CheckoutAtomic == [][C5_FailedCheckout]_vars /\ []C5_NoPartialOrder

\* C5 witness: the order row was acceptable but an item referenced a product
\* deleted since the page loaded; the user still has a cart line and no order
C5_Witness ==
    /\ resp.op = "checkout" /\ resp.status = "fk_violation"
    /\ resp.arg.delivery_address = "addr" /\ resp.arg.payment_method = "cod"
    /\ Cardinality(resp.arg.lines) = 2
    /\ \E r \in cart : r.user_id = resp.actor
    /\ \A o \in orders : o.user_id # resp.actor

\* the lines handed to the checkout are the user's Cart Lines as stored
LinesAreTheCart(uid, lines) ==
    /\ \A l \in lines : \E r \in cart : /\ r.id = l.id /\ r.user_id = uid
                                        /\ r.product_id = l.product.id
                                        /\ r.quantity = l.quantity
    /\ \A r \in cart : r.user_id = uid => \E l \in lines : l.id = r.id

C6_SuccessfulCheckout ==
    (/\ resp'.op = "checkout" /\ resp'.status = "ok"
     /\ LinesAreTheCart(resp'.actor, resp'.arg.lines)) =>
        LET lines == resp'.arg.lines
            uid == resp'.actor
            new == orders' \ orders
            newItems == order_items' \ order_items
            cost == [l \in resp'.arg.lines |->
                        products[l.product.id].price * l.quantity]
        IN  /\ lines # {}
            /\ orders \subseteq orders' /\ order_items \subseteq order_items'
            /\ Cardinality(new) = 1
            /\ \A o \in new :
                  /\ o.user_id = uid
                  /\ o.status = "pending"
                  /\ o.total_amount = SumOf(cost, lines) + DeliveryFee
                  /\ \A i \in newItems : i.order_id = o.id
            /\ Cardinality(newItems) = Cardinality(lines)
            /\ \A l \in lines :
                  Cardinality({i \in newItems :
                     /\ i.product_id = l.product.id
                     /\ i.quantity = l.quantity
                     /\ i.unit_price = products[l.product.id].price
                     /\ i.total_price = i.unit_price * l.quantity}) = 1
            /\ \A r \in cart' : r.user_id # uid
            /\ \A r \in cart : r.user_id # uid => r \in cart'

\* C6: a successful checkout of the user's non-empty cart creates exactly one
\* Order, pending, whose total_amount is the sum over the lines of the
\* product's price at that moment times the quantity plus the delivery fee,
\* exactly one Order Item per line with unit_price that price and total_price
\* unit_price times quantity, and leaves the user without Cart Lines.
C6_CheckoutTotals == [][C6_SuccessfulCheckout]_vars

\* C6 witness: Banana 2 x 40 and Milk 1 x 55 with fee 20: total 155 as the
\* Cart page showed it, item totals 80 and 55, cart empty
C6_Witness ==
    /\ resp.op = "checkout" /\ resp.status = "ok"
    /\ resp.arg.lines = cartItems["c1"]
    /\ CalculateTotal("c1") + DeliveryFee = 155
    /\ \E o \in orders :
          /\ o.id = resp.arg.order_id /\ o.total_amount = 155 /\ o.status = "pending"
          /\ \E i \in order_items :
                /\ i.order_id = o.id /\ i.product_id = "banana" /\ i.quantity = 2
                /\ i.unit_price = 40 /\ i.total_price = 80
          /\ \E i \in order_items :
                /\ i.order_id = o.id /\ i.product_id = "milk" /\ i.quantity = 1
                /\ i.unit_price = 55 /\ i.total_price = 55
    /\ \A r \in cart : r.user_id # resp.actor

C7_ItemsFrozen ==
    products' # products => order_items' = order_items

C7_HistoryReportsSnapshot ==
    resp.op = "fetch_orders" =>
       \A o \in resp.rows : \A it \in o.order_items :
          \E i \in order_items : /\ i.id = it.id /\ i.order_id = o.id
                                 /\ it.unit_price = i.unit_price
                                 /\ it.quantity = i.quantity

\* C7: no change of a Product (price, activity, deletion) changes any Order
\* Item, and the order history reports each Order Item's own unit_price.
C7_PriceSnapshot == [][C7_ItemsFrozen]_vars /\ []C7_HistoryReportsSnapshot

\* C7 witness: Banana was ordered at 40, costs 45 now, and the history of
\* its buyer has just reported unit_price 40
C7_Witness ==
    /\ resp.op = "fetch_orders" /\ resp.actor = resp.arg
    /\ products["banana"].price = 45
    /\ \E o \in resp.rows : \E it \in o.order_items :
          /\ it.unit_price = 40
          /\ \E i \in order_items : i.id = it.id /\ i.product_id = "banana"

ProfilesOf(u) == {r \in profiles : r.user_id = u}

\* C8: every User Identity has exactly one Profile and every Profile an
\* identity; a sign-up that succeeded left the Profile of the new identity
\* with the full_name of the metadata (none when absent), language 'en' and
\* data_collection_consent false, and one that failed left no identity.
C8_ProfileProvisioned ==
    /\ \A u \in authUsers : Cardinality(ProfilesOf(u)) = 1
    /\ \A r \in profiles : r.user_id \in authUsers
    /\ resp.op = "signup" =>
          IF resp.status = "ok"
          THEN /\ resp.actor \in authUsers
               /\ \A r \in ProfilesOf(resp.actor) :
                     /\ r.full_name = resp.arg.full_name
                     /\ r.language = "en"
                     /\ r.data_collection_consent = F
          ELSE resp.actor \notin authUsers

\* C8 witness: a sign-up with a name (and language 'hi' in the metadata)
\* has just succeeded while another identity exists
C8_Witness ==
    /\ resp.op = "signup" /\ resp.status = "ok"
    /\ resp.arg.full_name = "Asha" /\ resp.arg.language = "hi"
    /\ Cardinality(authUsers) = 2
    /\ \E r \in profiles : r.user_id = resp.actor /\ r.full_name = "Asha"

C9_SecondInsert ==
    LET target == IF resp'.op = "provision" THEN resp'.actor
                  ELSE resp'.arg.user_id
    IN  (/\ \/ resp'.op = "provision"
            \/ resp'.op = "profile_insert" /\ resp'.actor = resp'.arg.user_id
         /\ ProfilesOf(target) # {}) =>
           /\ resp'.status # "ok"
           /\ (resp'.op = "provision" \/ resp'.arg.language \in Languages) =>
                 resp'.status = "unique_violation"
           /\ profiles' = profiles

C9_AtMostOneProfile ==
    \A r1, r2 \in profiles : r1.user_id = r2.user_id => r1 = r2

\* C9: a retried provisioning, or a client's insert of its own profile, for
\* an identity that has a Profile is rejected, with a uniqueness violation
\* when the row is otherwise acceptable, and leaves profiles unchanged; no
\* identity ever has two Profiles.
C9_RetrySafe == [][C9_SecondInsert]_vars /\ []C9_AtMostOneProfile

\* C9 witness: the owner's own insert was just refused as a duplicate after
\* its profile had been changed
C9_Witness ==
    /\ resp.op = "profile_insert" /\ resp.actor = resp.arg.user_id
    /\ resp.status = "unique_violation"
    /\ \E r \in profiles : r.user_id = resp.actor /\ r.language = "hi"

\* term occurs in str, letter case ignored
ContainsIgnoreCase(str, term) ==
    \E i \in 1..(Len(str) + 1) :
       /\ i + Len(term) - 1 <= Len(str)
       /\ \A k \in 1..Len(term) : Lower(str[i + k - 1]) = Lower(term[k])

MatchesQuery(p, q) ==
    /\ q.category # NULL => products[p].category_id = q.category
    /\ \/ ContainsIgnoreCase(ProductName(p), q.term)
       \/ ContainsIgnoreCase(ProductBrand(p), q.term)

\* C10: whoever asks, a read of products or categories returns exactly the
\* existing rows that match the query and whose is_active is true; a row
\* whose is_active is false or unset is in no result.
C10_CatalogVisibility ==
    /\ resp.op = "fetch_products" =>
          resp.rows = {p \in Products : /\ products[p].exists
                                        /\ products[p].is_active = T
                                        /\ MatchesQuery(p, resp.arg)}
    /\ resp.op = "product_select" =>
          resp.rows = {p \in Products : products[p].exists /\ products[p].is_active = T}
    /\ resp.op \in {"fetch_categories", "category_select"} =>
          resp.rows = {c \in Categories :
                         categories[c].exists /\ categories[c].is_active = T}

\* C10 witness: Banana's is_active is unset, Milk is active, and an
\* anonymous unfiltered read has just returned Milk alone
C10_Witness ==
    /\ resp.op = "product_select" /\ resp.actor = NULL
    /\ products["banana"].exists /\ products["banana"].is_active = NULL
    /\ resp.rows = {"milk"}

LinesOfPair(table, user_id, p) ==
    {r \in table : r.user_id = user_id /\ r.product_id = p}

C11_SetToZero ==
    /\ (resp'.op = "cart_delete_pair" /\ resp'.actor = resp'.arg.user_id) =>
          LET gone == LinesOfPair(cart, resp'.arg.user_id, resp'.arg.product_id)
          IN  /\ resp'.status = "ok"
              /\ LinesOfPair(cart', resp'.arg.user_id, resp'.arg.product_id) = {}
              /\ cart' = cart \ gone
              /\ gone = {} => cart' = cart /\ resp'.affected = 0
    /\ resp'.op \in {"cart_page_delete", "cart_page_remove"} =>
          LET gone == {r \in cart : r.id = resp'.arg.id}
          IN  /\ resp'.status = "ok"
              /\ \A r \in gone :
                    /\ r.user_id = resp'.actor
                    /\ LinesOfPair(cart', r.user_id, r.product_id) = {}
              /\ cart' = cart \ gone
              /\ gone = {} => cart' = cart /\ resp'.affected = 0

\* C11: a set-quantity-to-0 by ProductCard.updateQuantity(0),
\* Cart.updateQuantity(id, 0) or Cart.removeFromCart ends without error and
\* leaves no Cart Line for the pair; when the line is gone already it changes
\* nothing; every other Cart Line stays as it was.
C11_ZeroIdempotent == [][C11_SetToZero]_vars

\* C11 witness: a removal has just been repeated for a line that was gone,
\* with no error and no row affected, while another user's line is stored
C11_Witness ==
    /\ resp.op = "cart_page_remove" /\ resp.status = "ok" /\ resp.affected = 0
    /\ \A r \in cart : r.id # resp.arg.id
    /\ \E r \in cart : r.user_id # resp.actor

\* C12 (as claimed): once set-quantity was called with a quantity <= 0 by the
\* signed-in owner, no Cart Line is stored for the (user, product) of the
\* product card, or under the id of the Cart page's item.
C12_NonPositiveDeletes ==
    /\ (/\ resp.op \in {"cart_delete_pair", "card_return"}
        /\ resp.arg.quantity <= 0
        /\ resp.actor # NULL /\ resp.actor = resp.arg.user_id) =>
          LinesOfPair(cart, resp.arg.user_id, resp.arg.product_id) = {}
    /\ (/\ resp.op \in {"cart_page_delete", "cart_page_return"}
        /\ resp.arg.quantity <= 0) =>
          \A r \in cart : r.id # resp.arg.id

\* C13 (as claimed): a statement on profiles that an ownership predicate
\* denies (a select, update or delete aimed at another identity's profile, an
\* insert of a row for another identity) ends without an error, returns no
\* row and affects no row.
C13_DenialIsSilent ==
    /\ (resp.op = "profile_select" /\ resp.actor # resp.arg) =>
          resp.status = "ok" /\ resp.rows = {}
    /\ (resp.op = "profile_update" /\ resp.actor # resp.arg.target) =>
          resp.status = "ok" /\ resp.affected = 0
    /\ (resp.op = "profile_delete" /\ resp.actor # resp.arg) =>
          resp.status = "ok" /\ resp.affected = 0
    /\ (resp.op = "profile_insert" /\ resp.actor # resp.arg.user_id) =>
          resp.status = "ok" /\ resp.affected = 0

C14_CreatedRowsAreOwn ==
    /\ \A r \in profiles' \ profiles : r.user_id = resp'.actor
    /\ \A r \in cart' \ cart : r.user_id = resp'.actor
    /\ \A r \in orders' \ orders : r.user_id = resp'.actor
    /\ \A i \in order_items' \ order_items :
          \E o \in orders : o.id = i.order_id /\ o.user_id = resp'.actor

\* C14: every Profile, Cart Line or Order that a statement of a requester
\* adds or changes carries the requester's identity as user_id afterwards,
\* and every Order Item a requester adds belongs to an Order that the
\* requester owned when the item was inserted.
C14_OwnershipOnCreation == [][C14_CreatedRowsAreOwn]_vars

\* C14 witness: u2's insert of an Order Item under an Order of u1 was just
\* refused by the insert check
C14_Witness ==
    /\ resp.op = "item_insert" /\ resp.actor = "u2"
    /\ resp.status = "rls_violation"
    /\ \E o \in orders : o.id = resp.arg /\ o.user_id = "u1"

C15_ItemsKept ==
    /\ resp'.actor # "service" => \A i \in order_items : i \in order_items'
    /\ \A i \in order_items :
          i \notin order_items' =>
             /\ \A j \in order_items' : j.id # i.id
             /\ \A o \in orders' : o.id # i.order_id

\* C15: no statement of a client, the owner's included, changes a field of an
\* Order Item or removes it; an Order Item leaves the table only together
\* with its parent Order, and never comes back changed.
C15_ItemsImmutable == [][C15_ItemsKept]_vars

\* C15 witness: the owner has just sent an update of the unit_price of its
\* own Order Item; no row was affected and the price is the one stored
C15_Witness ==
    /\ resp.op = "item_update" /\ resp.affected = 0
    /\ \E i \in order_items :
          /\ i.id = resp.arg /\ ItemOwner(i) = resp.actor /\ i.unit_price = 40

C16_OrdersKept ==
    resp'.actor # "service" => \A o \in orders : o \in orders'

\* C16: no statement of a client, the owner's included, changes the status,
\* total, fee, address or phone of an existing Order or deletes the Order.
C16_OrdersFrozen == [][C16_OrdersKept]_vars

\* C16 witness: the owner has just sent a status update of its own Order; no
\* row was affected and the Order is still pending
C16_Witness ==
    /\ resp.op = "order_update" /\ resp.affected = 0
    /\ \E o \in orders :
          /\ o.id = resp.arg /\ o.user_id = resp.actor /\ o.status = "pending"

\* C17 (as claimed): fetchProducts returns exactly the active products that
\* are in the selected category, when one is selected, and whose name or
\* brand contains the search term, letter case ignored, when one is given.
C17_ListingFilter ==
    resp.op = "fetch_products" =>
       resp.rows = {p \in Products :
                       /\ products[p].exists /\ products[p].is_active = T
                       /\ resp.arg.category # NULL =>
                             products[p].category_id = resp.arg.category
                       /\ resp.arg.term # <<>> =>
                             \/ ContainsIgnoreCase(ProductName(p), resp.arg.term)
                             \/ ContainsIgnoreCase(ProductBrand(p), resp.arg.term)}

C18_QuantitiesAtLeastOne ==
    /\ \A r \in cart : r.quantity >= 1
    /\ \A i \in order_items : i.quantity >= 1

C18_WouldBeRefused ==
    /\ \A u \in Users, p \in Products, q \in {-1, 0} :
          LET out == CartUpsertOutcome(u, u, p, q)
          IN  out.status = "check_violation" /\ out.cart = cart
    /\ \A r \in cart, q \in {-1, 0} :
          LET out == CartUpdateOutcome(r.user_id, r.id, "quantity", q)
          IN  out.status = "check_violation" /\ out.cart = cart
    /\ \A o \in orders, v \in ItemQuantityInputs :
          (v.order_id = o.id /\ v.quantity <= 0) =>
             /\ ItemInsertCheck(o.user_id, ItemRow(nextItemId, v))
             /\ ItemConstraints(ItemRow(nextItemId, v), orders) = "check_violation"

C18_Step ==
    /\ C18_QuantitiesAtLeastOne /\ C18_QuantitiesAtLeastOne'
    /\ C18_WouldBeRefused
    /\ resp'.status = "check_violation" =>
          /\ cart' = cart /\ order_items' = order_items /\ orders' = orders
          /\ resp'.affected = 0
    /\ resp'.op = "cart_page_delete" => \A r \in cart' : r.id # resp'.arg.id

\* C18: every Cart Line and every Order Item has a quantity of at least 1 in
\* every state; a write that would store a quantity of 0 or less in a row the
\* requester may write is refused as a CHECK violation, and a refused write
\* leaves the rows as they were; the cart page turns a requested quantity of
\* 0 into a deletion, so no line of quantity 0 is ever stored.
C18_PositiveQuantities == [][C18_Step]_vars

\* an order item of quantity 0 was just refused by the CHECK, beside a stored
\* cart line and a stored order
C18_Witness ==
    /\ resp.op = "item_insert" /\ resp.status = "check_violation"
    /\ cart # {} /\ orders # {}

\* C19 (as claimed): every Profile's language is en or hi, every Order's
\* status is one of the five listed values and every Order's payment_method
\* is cod or online, in every state.
C19_EnumeratedFields ==
    /\ \A r \in profiles : r.language \in Languages
    /\ \A o \in orders : o.status \in Statuses /\ o.payment_method \in PaymentMethods

\* every stored row references a stored identity, order and product
ReferencesResolve ==
    /\ \A r \in profiles : r.user_id \in authUsers
    /\ \A r \in cart : r.user_id \in authUsers /\ products[r.product_id].exists
    /\ \A o \in orders : o.user_id \in authUsers
    /\ \A i \in order_items :
          /\ i.order_id \in {o.id : o \in orders}
          /\ products[i.product_id].exists

C20_DeleteStep ==
    /\ resp'.op = "admin_user_delete" =>
          LET u == resp'.arg
              theirs == {o.id : o \in {r \in orders : r.user_id = u}}
          IN  /\ resp'.status = "ok" /\ u \notin authUsers'
              /\ profiles' = {r \in profiles : r.user_id # u}
              /\ cart' = {r \in cart : r.user_id # u}
              /\ orders' = {r \in orders : r.user_id # u}
              /\ order_items' = {i \in order_items : i.order_id \notin theirs}
    /\ resp'.op = "admin_product_delete" =>
          /\ resp'.status = "ok" /\ ~products'[resp'.arg].exists
          /\ cart' = {r \in cart : r.product_id # resp'.arg}
    /\ ReferencesResolve'

\* C20 (as claimed): deleting a User Identity removes its Profile, Cart
\* Lines, Orders and their Order Items and nothing of another identity;
\* deleting a Product succeeds and removes the Cart Lines that reference it;
\* no stored row ever references a missing identity, order or product.
C20_CascadingDeletion == [][C20_DeleteStep]_vars

CartPageWrites == {"cart_page_update", "cart_page_delete"}

C21_SecondCommit ==
    (/\ resp.op \in CartPageWrites /\ resp'.op \in CartPageWrites
     /\ resp.actor = resp'.actor /\ resp.arg.id = resp'.arg.id
     /\ resp.affected = 1) =>
       /\ resp.status = "ok" /\ resp'.status = "ok"
       /\ Cardinality({r \in cart' : r.id = resp'.arg.id}) = 1
       /\ \A r \in cart' : r.id = resp'.arg.id => r.quantity = resp'.arg.quantity

\* C21 (as claimed): when two Cart.updateQuantity calls for one stored Cart
\* Line are in flight together and their writes commit one after the other,
\* both writes are accepted, exactly one line remains under that id and its
\* quantity is the one the second write carried.
C21_LastWriteWins == [][C21_SecondCommit]_vars

\* C27 (as claimed): while the write of a Cart.updateQuantity or
\* Cart.removeFromCart call for a cart line is in flight, updating is that
\* line's id, so its controls are disabled, and no second write for the same
\* line is in flight.
C27_ControlsLocked ==
    \A c \in Clients : \A k \in cartCalls[c] :
       k.pc = "write" =>
          /\ CartControlDisabled(c, k.id)
          /\ \A j \in cartCalls[c] : (j.pc = "write" /\ j.id = k.id) => j = k

C22_TimestampStep ==
    /\ (resp'.op = "timed_cart_update" /\ resp'.affected = 1) =>
          /\ cartTimes'[resp'.arg].updated_at = now
          /\ cartTimes'[resp'.arg].created_at = cartTimes[resp'.arg].created_at
    /\ \A r \in cart : (\E x \in cart' : x.id = r.id) =>
          cartTimes'[r.id].updated_at >= cartTimes[r.id].updated_at
    /\ \A r \in cart' : cartTimes'[r.id].updated_at >= cartTimes'[r.id].created_at

\* C22 (as claimed): every successful update of a row sets its updated_at
\* to the time of the update and leaves created_at as it was; updated_at of
\* a row never decreases, and updated_at >= created_at in every state.
C22_Timestamps == [][C22_TimestampStep]_vars

\* C23 (as claimed): after a successful sign-up the provisioned Profile's
\* phone, language and data_collection_consent are the values submitted as
\* sign-up metadata.
C23_SignUpDataStored ==
    (resp.op = "signup" /\ resp.status = "ok") =>
       \A r \in ProfilesOf(resp.actor) :
          /\ r.phone = resp.arg.phone
          /\ r.language = resp.arg.language
          /\ r.data_collection_consent = resp.arg.data_collection_consent

\* C24 (as claimed): every Cart Line that Cart.fetchCartItems returns and
\* every Order Item that Orders.fetchOrders returns to the owner carries an
\* embedded product that is not null.
C24_EmbeddedProductPresent ==
    /\ resp.op = "cart_fetch" => \A l \in resp.rows : l.product # NoProduct
    /\ resp.op = "fetch_orders" =>
          \A o \in resp.rows : \A i \in o.order_items : i.product # NoProduct

C25_InsertStep ==
    /\ \A o \in orders' \ orders : o.status = "pending"
    /\ \A i \in order_items' \ order_items :
          /\ i.total_price = i.unit_price * i.quantity
          /\ i.unit_price = products[i.product_id].price

\* C25 (as claimed): every Order a client operation stores has status
\* pending when it is stored, and every Order Item a client operation
\* stores has total_price = unit_price x quantity and unit_price = the
\* product's price at that moment.
C25_OrdersStartPending == [][C25_InsertStep]_vars

\* C26 (as claimed): once every fetchProducts request of the Home page has
\* completed, the list on display is the result for the current
\* selectedCategory and searchQuery, and loading is false.
C26_LatestFilterWins ==
    homeFetches["c1"] = {} =>
       /\ homeProducts["c1"] =
             FetchProductsRows(session["c1"], selectedCategory["c1"], searchQuery["c1"])
       /\ homeLoading["c1"] = FALSE

\* C28 (as claimed): the mode of the Auth page is login, signup or forgot
\* in every state, and a submit that passes the consent check sends exactly
\* one of the sign-up, sign-in and password-reset requests.
C28_AuthMode ==
    /\ authMode["c1"] \in AuthModes
    /\ (resp.op = "auth_submit" /\ resp.status = "sent") =>
          authCall["c1"] \in {"signup", "login", "forgot"}
    /\ (resp.op = "auth_submit" /\ resp.status = "returned") =>
          (authMode["c1"] = "signup" /\ ~dataConsent["c1"])

\* a step of a call that is rejected before writing changes no table: a
\* negative quantity (product card, Cart page), sign-up without consent, and
\* a product card handler that finds no session
C29_RejectedStep ==
    LET k == card["c1"]["banana"]
        tables == <<dbAuth, dbCatalog, dbCart, dbOrders>>
    IN  /\ (resp'.op \in {"card_return", "cart_page_return"}) =>
              (resp'.arg.quantity < 0 /\ UNCHANGED tables)
        /\ (resp'.op = "auth_submit" /\ resp'.status = "returned") =>
              (UNCHANGED tables /\ ~authLoading'["c1"] /\ authCall'["c1"] = "none")
        /\ (k.pc = "session" /\ session["c1"] = NULL /\ card' # card) =>
              (UNCHANGED tables /\ card'["c1"]["banana"].pc = "finally")
        /\ (k.status = "no_session" /\ card' # card) =>
              (UNCHANGED tables /\ card'["c1"]["banana"] = CardIdle)

\* C29: every call of the product card's addToCart and updateQuantity, of
\* the Cart page's updateQuantity and removeFromCart and of the Auth form's
\* handleSubmit that sets its busy flag resets it eventually (loading = false,
\* updating = null), whichever way the call ends, and a call rejected before
\* writing performs no storage write.
C29_BusyFlagsClear ==
    /\ (card["c1"]["banana"].pc # "idle") ~> (card["c1"]["banana"].pc = "idle")
    /\ (updating["c1"] # {}) ~> (updating["c1"] = {})
    /\ \A n \in CallSlots :
          (\E k \in cartCalls["c1"] : k.n = n) ~> (\A k \in cartCalls["c1"] : k.n # n)
    /\ authLoading["c1"] ~> ~authLoading["c1"]
    /\ [][C29_RejectedStep]_vars

\* a product card handler whose write ended with an error stands before its
\* finally block, loading still true
C29_Witness ==
    /\ card["c1"]["banana"].pc = "finally"
    /\ card["c1"]["banana"].status \notin {"ok", "none", "no_session"}

=============================================================================
